---- MODULE Spec2Model ----
(***************************************************************************)
(* Verification model of nutils: the Basis family of nutils/function.py,   *)
(* the fork-based parallel loop of nutils/parallel.py, and the two-pass    *)
(* integration and the facet matching of nutils/topology.py, the Gmsh      *)
(* parser of nutils/mesh.py, Namespace of nutils/function.py, and the logs *)
(* of nutils/log.py.                                                       *)
(*                                                                         *)
(* Arrays are sequences; Python's 0-based position i is At(s, i).          *)
(* A call returns a record Ok(v) or Err(e): Err models a raised exception. *)
(***************************************************************************)
EXTENDS Integers, Sequences, FiniteSets, TLC

VARIABLES
  basis,      \* the Basis object under study (a record, see the constructors)
  op,         \* name of the last Basis method called ("" before any call)
  arg,        \* argument of the last call
  arg2,       \* second argument (the second element set of a union query)
  res,        \* result of the last call: Ok(v) or Err(e)
  cfg,        \* input of Topology._integrate: elements, blocks, nprocs
  offsets,    \* offsets[iblock][ielem]: the nblocks x (nelems+1) offset table
  nvals,      \* nvals[ifunc]: length of the arrays of function ifunc
  data,       \* data[ifunc][slot]: the shared data/index arrays (<<>> is zero)
  wlog,       \* wlog[ifunc][slot]: the processes that wrote the slot, in order
  pc,         \* pc[p]: position of process p ("absent" before it is forked)
  procid,     \* procid[p]: the module global procid in process p (None is -1)
  child_pid,  \* child_pid[p]: Fork.child_pid in process p (None is -1)
  iiter,      \* iiter[p]: local variable of _pariter
  enum_n,     \* enum_n[p]: n of _pariter, the position of enumerate (-1 before the first item)
  shared_iter,\* the shared counter multiprocessing.RawValue
  lock,       \* holder of the multiprocessing.Lock (-1 when free)
  exc,        \* exc[p]: an exception is leaving the with-block in process p
  status,     \* status[p]: exit status of process p (-1 while it runs)
  handled,    \* handled[p]: the items yielded to the loop body in process p, in order
  assertfail, \* the assertion n == iiter of _pariter has failed
  ielem1,     \* ielem of the first element loop of _integrate
  mesh,       \* self.elements of the Topology whose facets are matched
  edges,      \* the dict edges of edge_search: facet key -> edge
  ifaces,     \* the list ifaces of edge_search: pairs (edge, oppedge)
  elemno,     \* position of the element loop of edge_search
  edgeno,     \* position of the edge loop of edge_search
  searched,   \* edge_search has returned (the cached property is set)
  boundary,   \* result of Topology.boundary: Ok, Err, or Unset before the call
  interfaces, \* result of Topology.interfaces: Ok, Err, or Unset before the call
  bboundary,  \* result of boundary.boundary: Ok, Err, or Unset before the call
  hier,       \* the HierarchicalTopology whose basis is built: base grid, degree, elements
  hlevel,     \* position of the level loop of HierarchicalTopology.basis
  collect,    \* the dict collect: transform -> dofs of the element and its ancestors
  hndofs,     \* ndofs: the dofs numbered so far
  remaining,  \* remaining: elements of the topology not yet met
  keeps,      \* the array keep of every level passed so far
  hbasis,     \* result of HierarchicalTopology.basis: Ok, Err, or Unset before the return
  mp,         \* the MultipatchTopology: connectivity of the patches, and patchcontinuous
  ipatch,     \* position of the patch loop of MultipatchTopology.basis_spline
  mpdofmap,   \* dofmap: the dofs of the element of every patch met so far
  mpdofcount, \* dofcount
  commonboundarydofs, \* the dict commonboundarydofs: boundaryid -> list of boundarydofs
  mpbasis,    \* result of MultipatchTopology.basis_spline: Ok, or Unset before the return
  symtopo,    \* the product-domain topology that integrate_symm integrates over
  isym,       \* position of the element loop of integrate_symm
  diagelems,  \* the list diagelems
  trielems,   \* the list trielems
  retvals,    \* result of integrate_symm: Ok, or Unset before the return
  grid,       \* the structured grid whose standard basis is built: shape and degree
  gstd,       \* result of StructuredTopology.basis_std: Ok, or Unset before the call
  mshdata,    \* the contents of the msh file handed to parsegmsh
  gmshres,    \* result of parsegmsh: Ok, Err, or Unset before the call
  nsorig,     \* result of the constructor Namespace(...): the namespace that is copied
  nscopy,     \* result of Namespace.copy_: Ok, Err, or Unset before the call
  altfork,    \* altfork[p]: the AlternativeFork object in process p: nprocs and children
  altpc,      \* altpc[p]: position of process p relative to the with-block of AlternativeFork
  entered_procid, \* the global procid of the original process when it called __enter__
  waited,     \* the processes that have called os.wait in AlternativeFork.__exit__
  active,     \* the module's list _active of the logs that are entered
  stacks,     \* the Log objects that have the attribute _stack
  logres,     \* the last call of Log.__enter__ or Log.__exit__ and its result
  hist,       \* the context and write operations performed so far, in order
  stdoutlog,  \* the StdoutLog that is active while the operations are performed
  treelog,    \* the ContextTreeLog that is active while the operations are performed
  recordlog,  \* the RecordLog that is active while the operations are performed
  replaying,  \* RecordLog.replay: its phase, position in _messages and list contexts
  replaylog   \* the StdoutLog that is active while the record is replayed

basisvars == <<basis, op, arg, arg2, res>>
parvars == <<cfg, offsets, nvals, data, wlog, pc, procid, child_pid, iiter, enum_n,
             shared_iter, lock, exc, status, handled, assertfail, ielem1>>
edgevars == <<mesh, edges, ifaces, elemno, edgeno, searched, boundary, interfaces, bboundary>>
hiervars == <<hier, hlevel, collect, hndofs, remaining, keeps, hbasis>>
patchvars == <<mp, ipatch, mpdofmap, mpdofcount, commonboundarydofs, mpbasis>>
symvars == <<symtopo, isym, diagelems, trielems, retvals>>
gridvars == <<grid, gstd>>
gmshvars == <<mshdata, gmshres>>
nsvars == <<nsorig, nscopy>>
altvars == <<altfork, altpc, entered_procid, waited>>
logvars == <<active, stacks, logres>>
ctxvars == <<hist, stdoutlog, treelog, recordlog, replaying, replaylog>>
extvars == <<gmshvars, nsvars, altvars, logvars, ctxvars>>
topovars == <<hiervars, patchvars, symvars, gridvars, extvars>>

(***************************************************************************)
(* Bounds of the model.                                                    *)
(***************************************************************************)
MaxElems == 2       \* elements of a PlainBasis / DiscontBasis
MaxDofs == 3        \* dofs of a PlainBasis; largest parent that is masked or pruned
MaxLocal == 2       \* local dofs of one element of a PlainBasis / DiscontBasis
MaxGridElems == 4   \* elements of a structured grid (product of the shape)
MaxDegree == 2      \* polynomial degree along one axis of a structured grid
MaxItems == 3       \* elements of the topology that is integrated
MaxVals == 1        \* values one element contributes to one block
MaxWorkers == 2     \* processes of the element loop (nprocs), any integrand
MaxProcs == 3       \* processes of the element loop (nprocs), scalar integrand
MaxVerts == 4       \* vertices of the mesh whose facets are matched
MaxMeshElems == 3   \* elements of the mesh whose facets are matched

(***************************************************************************)
(* Generic helpers.                                                        *)
(***************************************************************************)
Ok(v) == [ok |-> TRUE, v |-> v, err |-> ""]
Err(e) == [ok |-> FALSE, v |-> <<>>, err |-> e]

At(s, i) == s[i + 1]
Ran(s) == {s[k] : k \in DOMAIN s}
Arange(a, b) == [k \in 1..(b - a) |-> a + k - 1]

RECURSIVE SortSet(_)
SortSet(S) ==
  IF S = {} THEN <<>>
  ELSE LET m == CHOOSE x \in S : \A y \in S : x <= y
       IN <<m>> \o SortSet(S \ {m})

RECURSIVE Concat(_)
Concat(ss) == IF ss = <<>> THEN <<>> ELSE Head(ss) \o Concat(Tail(ss))

RECURSIVE Compress(_, _)
Compress(mask, s) ==
  IF s = <<>> THEN <<>>
  ELSE (IF Head(mask) THEN <<Head(s)>> ELSE <<>>) \o Compress(Tail(mask), Tail(s))

RECURSIVE Product(_)
Product(s) == IF s = <<>> THEN 1 ELSE Head(s) * Product(Tail(s))

RECURSIVE Cumsum(_, _)
Cumsum(acc, s) == IF s = <<>> THEN <<acc>> ELSE <<acc>> \o Cumsum(acc + Head(s), Tail(s))

\* a number for the set of the entries of a sequence without duplicates
RECURSIVE SetCode(_)
SetCode(t) == IF t = <<>> THEN 0 ELSE 2 ^ Head(t) + SetCode(Tail(t))

IsStrictlyIncreasing(s) == \A k \in 1..(Len(s) - 1) : s[k] < s[k + 1]

(***************************************************************************)
(* Arguments of get_dofs / get_support: a Python int, an integer array or  *)
(* a boolean array.  Arrays carry their number of dimensions and their     *)
(* entries in flat order.                                                  *)
(***************************************************************************)
IntArg(i) == [t |-> "int", n |-> i, ndim |-> 0, v |-> <<>>, m |-> <<>>]
IntArray(ndim, v) == [t |-> "intarray", n |-> 0, ndim |-> ndim, v |-> v, m |-> <<>>]
BoolArray(ndim, m) == [t |-> "boolarray", n |-> 0, ndim |-> ndim, v |-> <<>>, m |-> m]
NoArg == [t |-> "none", n |-> 0, ndim |-> 0, v |-> <<>>, m |-> <<>>]

Where(m) == Compress(m, Arange(0, Len(m)))

(***************************************************************************)
(* numpy and numeric helpers.                                              *)
(***************************************************************************)
unique(s) == SortSet(Ran(s))

RECURSIVE bisect(_, _, _, _, _)
bisect(a, v, lo, hi, right) ==
  IF lo >= hi THEN lo
  ELSE LET mid == lo + ((hi - lo) \div 2)
       IN IF (IF right THEN At(a, mid) <= v ELSE At(a, mid) < v)
          THEN bisect(a, v, mid + 1, hi, right)
          ELSE bisect(a, v, lo, mid, right)

searchsorted(a, v, side) == bisect(a, v, 0, Len(a), side = "right")

normdim(length, n) ==
  IF n < -length \/ n >= length THEN Err("IndexError")
  ELSE Ok(IF n < 0 THEN n + length ELSE n)

sorted_contains(sorted_array, items) ==
  [k \in DOMAIN items |->
     LET i == searchsorted(sorted_array, items[k], "left")
     IN i < Len(sorted_array) /\ At(sorted_array, i) = items[k]]

sorted_index(sorted_array, items) ==
  LET found == sorted_contains(sorted_array, items)
      index == [k \in DOMAIN items |-> searchsorted(sorted_array, items[k], "left")]
  IN Compress(found, index)

\* a[i] for a tuple or an array a and a Python int i
getitem(a, i) ==
  LET n == normdim(Len(a), i) IN IF n.ok THEN Ok(At(a, n.v)) ELSE n

\* a[index] for a numpy array a and an int, an integer array or a boolean array
npindex(a, index) ==
  IF index.t = "int" THEN
    LET x == getitem(a, index.n) IN IF x.ok THEN Ok(IntArg(x.v)) ELSE x
  ELSE IF index.t = "intarray" THEN
    IF \E k \in DOMAIN index.v : ~ normdim(Len(a), index.v[k]).ok THEN Err("IndexError")
    ELSE Ok(IntArray(index.ndim, [k \in DOMAIN index.v |-> getitem(a, index.v[k]).v]))
  ELSE IF index.t = "boolarray" THEN
    IF index.ndim # 1 \/ Len(index.m) # Len(a) THEN Err("IndexError")
    ELSE Ok(IntArray(1, Compress(index.m, a)))
  ELSE Err("IndexError")

\* numeric.poly_outer_product on the leading axis: one row per pair of rows
poly_outer_product(left, right) ==
  [k \in 1..(Len(left) * Len(right)) |->
     left[((k - 1) \div Len(right)) + 1] * right[((k - 1) % Len(right)) + 1]]

\* as add_outer, the left operand not multiplied by ndofs_i
add_outer_noscale(left, scale, right) ==
  [k \in 1..(Len(left) * Len(right)) |->
     left[((k - 1) \div Len(right)) + 1] + right[((k - 1) % Len(right)) + 1]]

\* numpy.add.outer(dofs*ndofs_i, dofs_i).ravel()
add_outer(left, scale, right) ==
  [k \in 1..(Len(left) * Len(right)) |->
     left[((k - 1) \div Len(right)) + 1] * scale + right[((k - 1) % Len(right)) + 1]]

(***************************************************************************)
(* Basis objects (nutils/function.py).  A basis is a record whose field    *)
(* kind names the class; the other fields are the slots of that class.     *)
(* Coefficients are modelled by degree-0 polynomials: one integer per row. *)
(***************************************************************************)
RECURSIVE get_dofs(_, _), Basis_get_dofs(_, _), get_support(_, _), Basis_get_support(_, _)
RECURSIVE get_coefficients(_, _)

RECURSIVE Unravel(_, _)
Unravel(shape, i) ==
  IF shape = <<>> THEN <<>>
  ELSE LET n == shape[Len(shape)]
       IN Unravel(SubSeq(shape, 1, Len(shape) - 1), i \div n) \o <<i % n>>

\* as masked_coefficients, with the rows in the order of the indices
masked_coefficients_byindex(indices, parentdofs, parentcoeffs) ==
  LET hit == SelectSeq(indices, LAMBDA i : i \in Ran(parentdofs))
  IN [j \in DOMAIN hit |-> parentcoeffs[CHOOSE k \in DOMAIN parentdofs : parentdofs[k] = hit[j]]]

\* MaskedBasis.get_coefficients: mask = sorted_contains(indices, parent dofs)
\* and the rows parent coefficients[mask]
masked_coefficients(indices, parentdofs, parentcoeffs) ==
  Compress(sorted_contains(indices, parentdofs), parentcoeffs)

\* StructuredBasis._get_indices
get_indices(b, ielem) ==
  LET n == normdim(b.nelems, ielem)
  IN IF n.ok THEN Ok(Unravel(b.transforms_shape, n.v)) ELSE n

\* the loop of StructuredBasis.get_dofs over the axes 1..k
RECURSIVE structured_dofs(_, _, _)
structured_dofs(b, indices, k) ==
  IF k = 0 THEN <<0>>
  ELSE LET ndofs_i == b.dofs_shape[k]
           range == Arange(At(b.start_dofs[k], indices[k]), At(b.stop_dofs[k], indices[k]))
           dofs_i == [j \in DOMAIN range |-> range[j] % ndofs_i]
       IN add_outer(structured_dofs(b, indices, k - 1), ndofs_i, dofs_i)

\* as axis_supports, without the passes for dof_i + ndofs_i, dof_i + 2*ndofs_i, ...
axis_supports_nowrap(start_dofs_i, stop_dofs_i, ndofs_i, dof_i) ==
  IF dof_i < stop_dofs_i[Len(stop_dofs_i)]
  THEN Arange(searchsorted(stop_dofs_i, dof_i, "right"), searchsorted(start_dofs_i, dof_i, "right"))
  ELSE <<>>

\* the while loop of StructuredBasis.get_support along one axis
RECURSIVE axis_supports(_, _, _, _)
axis_supports(start_dofs_i, stop_dofs_i, ndofs_i, dof_i) ==
  IF dof_i < stop_dofs_i[Len(stop_dofs_i)]
  THEN LET stop_ielem == searchsorted(start_dofs_i, dof_i, "right")
           start_ielem == searchsorted(stop_dofs_i, dof_i, "right")
       IN Arange(start_ielem, stop_ielem)
            \o axis_supports(start_dofs_i, stop_dofs_i, ndofs_i, dof_i + ndofs_i)
  ELSE <<>>

\* functools.reduce(numpy.add.outer, reversed(supports)).ravel() over the axes 1..k
RECURSIVE structured_support(_, _, _)
structured_support(b, dofidx, k) ==
  IF k = 0 THEN <<0>>
  ELSE LET ntrans == Product(SubSeq(b.transforms_shape, k + 1, Len(b.transforms_shape)))
           supp == unique(axis_supports(b.start_dofs[k], b.stop_dofs[k], b.dofs_shape[k], dofidx[k]))
       IN add_outer(structured_support(b, dofidx, k - 1), 1, [j \in DOMAIN supp |-> supp[j] * ntrans])

RECURSIVE structured_coeffs(_, _, _)
structured_coeffs(b, indices, k) ==
  IF k = 1 THEN At(b.coeffs[1], indices[1])
  ELSE poly_outer_product(structured_coeffs(b, indices, k - 1), At(b.coeffs[k], indices[k]))

\* as Basis_get_dofs, the dofs of the selected elements chained but not made unique
Basis_get_dofs_chain(b, ielem) ==
  IF ielem.t = "int" THEN Err("NotImplementedError")
  ELSE IF ielem.t = "intarray" THEN
    IF ielem.ndim # 1 THEN Err("IndexError")
    ELSE IF Len(ielem.v) = 0 THEN Ok(<<>>)
    ELSE LET u == unique(ielem.v)
         IN IF u[1] < 0 \/ u[Len(u)] >= b.nelems THEN Err("IndexError")
            ELSE Ok(Concat([k \in DOMAIN u |-> get_dofs(b, IntArg(u[k])).v]))
  ELSE IF ielem.t = "boolarray" THEN
    IF ielem.ndim # 1 \/ Len(ielem.m) # b.nelems THEN Err("IndexError")
    ELSE get_dofs(b, IntArray(1, Where(ielem.m)))
  ELSE Err("IndexError")

\* Basis.get_dofs whose range check looks at the largest entry only, so that a
\* negative entry counts from the end
Basis_get_dofs_wrap(b, ielem) ==
  IF ielem.t = "int" THEN Err("NotImplementedError")
  ELSE IF ielem.t = "intarray" THEN
    IF ielem.ndim # 1 THEN Err("IndexError")
    ELSE IF Len(ielem.v) = 0 THEN Ok(<<>>)
    ELSE LET u == unique(ielem.v)
         IN IF u[Len(u)] >= b.nelems THEN Err("IndexError")
            ELSE Ok(unique(Concat([k \in DOMAIN u |-> get_dofs(b, IntArg(u[k])).v])))
  ELSE IF ielem.t = "boolarray" THEN
    IF ielem.ndim # 1 \/ Len(ielem.m) # b.nelems THEN Err("IndexError")
    ELSE get_dofs(b, IntArray(1, Where(ielem.m)))
  ELSE Err("IndexError")

\* Basis.get_dofs: the array branches shared by all classes
Basis_get_dofs(b, ielem) ==
  IF ielem.t = "int" THEN Err("NotImplementedError")
  ELSE IF ielem.t = "intarray" THEN
    IF ielem.ndim # 1 THEN Err("IndexError")
    ELSE IF Len(ielem.v) = 0 THEN Ok(<<>>)
    ELSE LET u == unique(ielem.v)
         IN IF u[1] < 0 \/ u[Len(u)] >= b.nelems THEN Err("IndexError")
            ELSE Ok(unique(Concat([k \in DOMAIN u |-> get_dofs(b, IntArg(u[k])).v])))
  ELSE IF ielem.t = "boolarray" THEN
    IF ielem.ndim # 1 \/ Len(ielem.m) # b.nelems THEN Err("IndexError")
    ELSE get_dofs(b, IntArray(1, Where(ielem.m)))
  ELSE Err("IndexError")

get_dofs(b, ielem) ==
  IF b.kind = "plain" THEN
    IF ielem.t # "int" THEN Basis_get_dofs(b, ielem)
    ELSE getitem(b.dofs, ielem.n)
  ELSE IF b.kind = "discont" THEN
    IF ielem.t # "int" THEN Basis_get_dofs(b, ielem)
    ELSE LET n == normdim(b.nelems, ielem.n)
         IN IF ~ n.ok THEN n
            ELSE Ok(Arange(At(b.offsets, n.v), At(b.offsets, n.v + 1)))
  ELSE IF b.kind = "masked" THEN
    LET p == get_dofs(b.parent, ielem)
    IN IF ~ p.ok THEN p ELSE Ok(sorted_index(b.indices, p.v))
  ELSE IF b.kind = "structured" THEN
    IF ielem.t # "int" THEN Basis_get_dofs(b, ielem)
    ELSE LET indices == get_indices(b, ielem.n)
         IN IF ~ indices.ok THEN indices
            ELSE Ok(structured_dofs(b, indices.v, Len(b.dofs_shape)))
  ELSE \* pruned
    IF ielem.t = "intarray" /\ ielem.ndim = 1 /\ (\E k \in DOMAIN ielem.v : ielem.v[k] < 0)
    THEN Err("IndexError")
    ELSE LET t == npindex(b.transmap, ielem)
         IN IF ~ t.ok THEN t
            ELSE LET p == get_dofs(b.parent, t.v)
                 IN IF ~ p.ok THEN p
                    ELSE Ok([k \in DOMAIN p.v |-> searchsorted(b.dofmap, p.v[k], "left")])

\* Basis._computed_support: one scan over all elements
computed_support(b) ==
  [d \in 1..b.ndofs |->
     SortSet({e \in 0..(b.nelems - 1) : (d - 1) \in Ran(get_dofs(b, IntArg(e)).v)})]

\* Basis.get_support that accepts a boolean array of any length
Basis_get_support_anymask(b, dof) ==
  IF dof.t = "int" THEN getitem(computed_support(b), dof.n)
  ELSE IF dof.t = "intarray" THEN
    IF dof.ndim # 1 THEN Err("IndexError")
    ELSE IF Len(dof.v) = 0 THEN Ok(<<>>)
    ELSE LET u == unique(dof.v)
         IN IF u[1] < 0 \/ u[Len(u)] >= b.ndofs THEN Err("IndexError")
            ELSE IF b.kind = "plain"
            THEN Ok(SortSet({e \in 0..(b.nelems - 1) :
                               Ran(get_dofs(b, IntArg(e)).v) \cap Ran(u) # {}}))
            ELSE Ok(unique(Concat([k \in DOMAIN u |-> get_support(b, IntArg(u[k])).v])))
  ELSE IF dof.t = "boolarray" THEN
    IF dof.ndim # 1 THEN Err("IndexError")
    ELSE get_support(b, IntArray(1, SelectSeq(Where(dof.m), LAMBDA d : d < b.ndofs)))
  ELSE Err("IndexError")

\* Basis.get_support: the scalar branch of the base class and the array branches
Basis_get_support(b, dof) ==
  IF dof.t = "int" THEN getitem(computed_support(b), dof.n)
  ELSE IF dof.t = "intarray" THEN
    IF dof.ndim # 1 THEN Err("IndexError")
    ELSE IF Len(dof.v) = 0 THEN Ok(<<>>)
    ELSE LET u == unique(dof.v)
         IN IF u[1] < 0 \/ u[Len(u)] >= b.ndofs THEN Err("IndexError")
            ELSE IF b.kind = "plain"
            THEN Ok(SortSet({e \in 0..(b.nelems - 1) :
                               Ran(get_dofs(b, IntArg(e)).v) \cap Ran(u) # {}}))
            ELSE Ok(unique(Concat([k \in DOMAIN u |-> get_support(b, IntArg(u[k])).v])))
  ELSE IF dof.t = "boolarray" THEN
    IF dof.ndim # 1 \/ Len(dof.m) # b.ndofs THEN Err("IndexError")
    ELSE get_support(b, IntArray(1, Where(dof.m)))
  ELSE Err("IndexError")

get_support(b, dof) ==
  IF b.kind = "plain" THEN Basis_get_support(b, dof)
  ELSE IF b.kind = "discont" THEN
    IF dof.t # "int" THEN Basis_get_support(b, dof)
    ELSE LET n == normdim(b.ndofs, dof.n)
         IN IF ~ n.ok THEN n
            ELSE Ok(<<searchsorted(SubSeq(b.offsets, 1, Len(b.offsets) - 1), n.v, "right") - 1>>)
  ELSE IF b.kind = "masked" THEN
    IF dof.t = "intarray" /\ dof.ndim = 1 /\ (\E k \in DOMAIN dof.v : dof.v[k] < 0)
    THEN Err("IndexError")
    ELSE LET i == npindex(b.indices, dof)
         IN IF ~ i.ok THEN i ELSE get_support(b.parent, i.v)
  ELSE IF b.kind = "structured" THEN
    IF dof.t # "int" THEN Basis_get_support(b, dof)
    ELSE LET n == normdim(b.ndofs, dof.n)
         IN IF ~ n.ok THEN n
            ELSE Ok(structured_support(b, Unravel(b.dofs_shape, n.v), Len(b.dofs_shape)))
  ELSE \* pruned
    IF dof.t = "intarray" /\ dof.ndim = 1 /\ (\E k \in DOMAIN dof.v : dof.v[k] < 0)
    THEN Err("IndexError")
    ELSE LET i == npindex(b.dofmap, dof)
         IN IF ~ i.ok THEN i
            ELSE LET p == get_support(b.parent, i.v)
                 IN IF ~ p.ok THEN p ELSE Ok(sorted_index(b.transmap, p.v))

get_coefficients(b, ielem) ==
  IF b.kind \in {"plain", "discont"} THEN getitem(b.coeffs, ielem)
  ELSE IF b.kind = "masked" THEN
    LET d == get_dofs(b.parent, IntArg(ielem))
        c == get_coefficients(b.parent, ielem)
    IN IF ~ d.ok THEN d
       ELSE IF ~ c.ok THEN c
       ELSE Ok(masked_coefficients(b.indices, d.v, c.v))
  ELSE IF b.kind = "structured" THEN
    LET indices == get_indices(b, ielem)
    IN IF ~ indices.ok THEN indices
       ELSE Ok(structured_coeffs(b, indices.v, Len(b.dofs_shape)))
  ELSE \* pruned
    LET t == getitem(b.transmap, ielem)
    IN IF ~ t.ok THEN t ELSE get_coefficients(b.parent, t.v)

\* get_ndofs: Basis.get_ndofs is len(self.get_dofs(ielem)); DiscontBasis and
\* StructuredBasis have their own
get_ndofs(b, ielem) ==
  IF b.kind = "discont" THEN
    LET hi == getitem(b.offsets, ielem + 1)
        lo == getitem(b.offsets, ielem)
    IN IF ~ hi.ok THEN hi ELSE IF ~ lo.ok THEN lo ELSE Ok(hi.v - lo.v)
  ELSE IF b.kind = "structured" THEN
    LET indices == get_indices(b, ielem)
    IN IF ~ indices.ok THEN indices
       ELSE Ok(Product([k \in DOMAIN b.dofs_shape |->
                          At(b.stop_dofs[k], indices.v[k]) - At(b.start_dofs[k], indices.v[k])]))
  ELSE LET d == get_dofs(b, IntArg(ielem))
       IN IF ~ d.ok THEN d ELSE Ok(Len(d.v))

(***************************************************************************)
(* Constructors.                                                           *)
(***************************************************************************)
PlainBasis(coefficients, dofs, ndofs) ==
  [kind |-> "plain", coeffs |-> coefficients, dofs |-> dofs,
   ndofs |-> ndofs, nelems |-> Len(coefficients)]

DiscontBasis(coefficients) ==
  LET offs == Cumsum(0, [k \in DOMAIN coefficients |-> Len(coefficients[k])])
  IN [kind |-> "discont", coeffs |-> coefficients, offsets |-> offs,
      ndofs |-> offs[Len(offs)], nelems |-> Len(coefficients)]

MaskedBasis(parent, indices) ==
  [kind |-> "masked", parent |-> parent, indices |-> indices,
   ndofs |-> Len(indices), nelems |-> parent.nelems]

\* MaskedBasis.__init__ that accepts repeated indices
MaskedBasis_init_nonstrict(parent, indices) ==
  IF indices.ndim # 1 THEN Err("ValueError")
  ELSE IF Len(indices.v) > 0 /\ ~ (\A k \in 1..(Len(indices.v) - 1) : indices.v[k + 1] - indices.v[k] >= 0)
  THEN Err("ValueError")
  ELSE IF Len(indices.v) > 0 /\ (indices.v[1] < 0 \/ indices.v[Len(indices.v)] >= parent.ndofs)
  THEN Err("ValueError")
  ELSE Ok(MaskedBasis(parent, indices.v))

\* MaskedBasis.__init__: the checks of the index array, then the object
MaskedBasis_init(parent, indices) ==
  IF indices.ndim # 1 THEN Err("ValueError")
  ELSE IF Len(indices.v) > 0 /\ ~ (\A k \in 1..(Len(indices.v) - 1) : indices.v[k + 1] - indices.v[k] > 0)
  THEN Err("ValueError")
  ELSE IF Len(indices.v) > 0 /\ (indices.v[1] < 0 \/ indices.v[Len(indices.v)] >= parent.ndofs)
  THEN Err("ValueError")
  ELSE Ok(MaskedBasis(parent, indices.v))

StructuredBasis(coeffs, start_dofs, stop_dofs, dofs_shape, transforms_shape) ==
  [kind |-> "structured", coeffs |-> coeffs, start_dofs |-> start_dofs,
   stop_dofs |-> stop_dofs, dofs_shape |-> dofs_shape,
   transforms_shape |-> transforms_shape,
   ndofs |-> Product(dofs_shape), nelems |-> Product(transforms_shape)]

PrunedBasis(parent, transmap) ==
  LET dofmap == get_dofs(parent, IntArray(1, transmap)).v
  IN [kind |-> "pruned", parent |-> parent, transmap |-> transmap, dofmap |-> dofmap,
      ndofs |-> Len(dofmap), nelems |-> Len(transmap)]

(***************************************************************************)
(* Topology._integrate (nutils/topology.py) on top of parallel.pariter and *)
(* parallel.Fork (nutils/parallel.py).  Process 0 is the original process; *)
(* process k+1 is forked by process k.                                     *)
(***************************************************************************)
None == -1

Procs == 0..(MaxProcs - 1)

NBlocks == Len(cfg.block2func)
NFuncs == cfg.nfuncs
Items == 0..(cfg.nelems - 1)

\* n = util.product(len(ind) for ind in index) if index else 1
BlockSize(iblock, e) == cfg.sizes[iblock][e + 1]

\* as ShiftOffsets, the offsets of a block not moved behind the earlier blocks
RECURSIVE ShiftOffsets_noshift(_, _, _)
ShiftOffsets_noshift(offs, nv, iblock) ==
  IF iblock > Len(offs) THEN [offsets |-> offs, nvals |-> nv]
  ELSE LET ifunc == cfg.block2func[iblock] + 1
           row == offs[iblock]
       IN ShiftOffsets_noshift(offs, [nv EXCEPT ![ifunc] = nv[ifunc] + row[Len(row)]], iblock + 1)

\* offsets[iblock] += nvals[ifunc]; nvals[ifunc] = offsets[iblock,-1], block by block
RECURSIVE ShiftOffsets(_, _, _)
ShiftOffsets(offs, nv, iblock) ==
  IF iblock > Len(offs) THEN [offsets |-> offs, nvals |-> nv]
  ELSE LET ifunc == cfg.block2func[iblock] + 1
           row == [k \in DOMAIN offs[iblock] |-> offs[iblock][k] + nv[ifunc]]
       IN ShiftOffsets([offs EXCEPT ![iblock] = row],
                       [nv EXCEPT ![ifunc] = row[Len(row)]], iblock + 1)

\* as Slice, one slot more at the end
Slice_wide(offs, iblock, e) == (offs[iblock][e + 1] + 1)..(offs[iblock][e + 2] + 1)

\* s = slice(*offsets[iblock,ielem1:ielem1+2]) as the set of its 1-based slots
Slice(offs, iblock, e) == (offs[iblock][e + 1] + 1)..offs[iblock][e + 2]

\* the body of the second element loop for element e, block by block:
\* data[s] = w_intdata.ravel() and index[idim,s] = ii
RECURSIVE FillElem(_, _, _, _)
FillElem(d, offs, e, iblock) ==
  IF iblock > Len(offs) THEN d
  ELSE LET ifunc == cfg.block2func[iblock] + 1
           s == Slice(offs, iblock, e)
           row == [k \in DOMAIN d[ifunc] |->
                     IF k \in s THEN <<iblock, e, k - offs[iblock][e + 1]>> ELSE d[ifunc][k]]
       IN FillElem([d EXCEPT ![ifunc] = row], offs, e, iblock + 1)

RECURSIVE LogElem(_, _, _, _, _)
LogElem(w, offs, e, iblock, p) ==
  IF iblock > Len(offs) THEN w
  ELSE LET ifunc == cfg.block2func[iblock] + 1
           s == Slice(offs, iblock, e)
           row == [k \in DOMAIN w[ifunc] |->
                     IF k \in s THEN Append(w[ifunc][k], p) ELSE w[ifunc][k]]
       IN LogElem([w EXCEPT ![ifunc] = row], offs, e, iblock + 1, p)

\* the state of the facet-matching variables while no facets are matched
EdgeIdle ==
  /\ mesh = <<>>
  /\ edges = <<>>
  /\ ifaces = <<>>
  /\ elemno = 0
  /\ edgeno = 0
  /\ searched = FALSE
  /\ boundary = [ok |-> FALSE, v |-> <<>>, err |-> "unset"]
  /\ interfaces = [ok |-> FALSE, v |-> <<>>, err |-> "unset"]
  /\ bboundary = [ok |-> FALSE, v |-> <<>>, err |-> "unset"]

\* the state of the integration variables while no integration runs
ParIdle ==
  /\ cfg = [nelems |-> 0, nprocs |-> 1, nfuncs |-> 0, block2func |-> <<>>, sizes |-> <<>>]
  /\ offsets = <<>>
  /\ nvals = <<>>
  /\ data = <<>>
  /\ wlog = <<>>
  /\ pc = [p \in Procs |-> "absent"]
  /\ procid = [p \in Procs |-> None]
  /\ child_pid = [p \in Procs |-> None]
  /\ iiter = [p \in Procs |-> 0]
  /\ enum_n = [p \in Procs |-> -1]
  /\ shared_iter = 0
  /\ lock = None
  /\ exc = [p \in Procs |-> FALSE]
  /\ status = [p \in Procs |-> -1]
  /\ handled = [p \in Procs |-> <<>>]
  /\ assertfail = FALSE
  /\ ielem1 = 0

BasisIdle ==
  /\ basis = [kind |-> "none"]
  /\ op = ""
  /\ arg = NoArg
  /\ arg2 = NoArg
  /\ res = Ok(<<>>)

\* the state of the hierarchical basis variables while no basis is built
HierIdle ==
  /\ hier = [nbase |-> 0, degree |-> 0, elements |-> {}]
  /\ hlevel = 0
  /\ collect = <<>>
  /\ hndofs = 0
  /\ remaining = 0
  /\ keeps = <<>>
  /\ hbasis = [ok |-> FALSE, v |-> <<>>, err |-> "unset"]

\* the state of the multipatch variables while no multipatch basis is built
PatchIdle ==
  /\ mp = [connectivity |-> <<>>, patchcontinuous |-> FALSE]
  /\ ipatch = 0
  /\ mpdofmap = <<>>
  /\ mpdofcount = 0
  /\ commonboundarydofs = <<>>
  /\ mpbasis = [ok |-> FALSE, v |-> <<>>, err |-> "unset"]

\* the state of the topology variables outside the specifications that use them
\* the state of the integrate_symm variables while nothing is integrated
SymIdle ==
  /\ symtopo = <<>>
  /\ isym = 0
  /\ diagelems = <<>>
  /\ trielems = <<>>
  /\ retvals = [ok |-> FALSE, v |-> <<>>, err |-> "unset"]

\* the state of the grid variables while no standard basis is built
GridIdle ==
  /\ grid = [shape |-> <<>>, degree |-> 0]
  /\ gstd = [ok |-> FALSE, v |-> <<>>, err |-> "unset"]

\* the state of the parser variables while no file is parsed
GmshIdle ==
  /\ mshdata = [format |-> <<>>, elements |-> <<>>]
  /\ gmshres = [ok |-> FALSE, v |-> <<>>, err |-> "unset"]

\* the state of the namespace variables while no namespace is copied
NsIdle ==
  /\ nsorig = [ok |-> FALSE, v |-> <<>>, err |-> "unset"]
  /\ nscopy = [ok |-> FALSE, v |-> <<>>, err |-> "unset"]

\* the state of the AlternativeFork variables while no such context is used
AltIdle ==
  /\ altfork = <<>>
  /\ altpc = <<>>
  /\ entered_procid = None
  /\ waited = {}

\* the state of the log variables while no log is entered
LogIdle ==
  /\ active = <<>>
  /\ stacks = {}
  /\ logres = [op |-> "", log |-> 0, had_stack |-> FALSE, ok |-> TRUE, err |-> ""]

\* the state of the context variables while nothing is logged
CtxIdle ==
  /\ hist = <<>>
  /\ stdoutlog = <<>>
  /\ treelog = <<>>
  /\ recordlog = <<>>
  /\ replaying = <<>>
  /\ replaylog = <<>>

ExtIdle ==
  /\ GmshIdle
  /\ NsIdle
  /\ AltIdle
  /\ LogIdle
  /\ CtxIdle

TopoIdle ==
  /\ HierIdle
  /\ PatchIdle
  /\ SymIdle
  /\ GridIdle
  /\ ExtIdle

\* the blocks of the integrands: one function with one or two blocks, or two
\* functions with one block each
BlockMaps == {<<0>>, <<0, 0>>, <<0, 1>>}

\* the numbers of values of one block on ne elements: the same on every
\* element, or changing from element to element
SizePatterns(ne) ==
  {[e \in 1..ne |-> (base + (e - 1) * step) % (MaxVals + 1)] : base \in 0..MaxVals, step \in 0..1}

\* a scalar integrand: one block of one value on every element
Scalar(ne) == <<[e \in 1..ne |-> 1]>>

\* up to MaxWorkers processes for every integrand, up to MaxProcs processes
\* for a scalar integrand
Configs ==
  UNION {UNION {{[nelems |-> ne, nprocs |-> np, nfuncs |-> b2f[Len(b2f)] + 1,
                  block2func |-> b2f, sizes |-> sz] :
                   np \in 1..MaxWorkers, sz \in [1..Len(b2f) -> SizePatterns(ne)]} :
                b2f \in BlockMaps} :
         ne \in 0..MaxItems}
  \cup {[nelems |-> ne, nprocs |-> np, nfuncs |-> 1, block2func |-> <<0>>, sizes |-> Scalar(ne)] :
          ne \in 0..MaxItems, np \in 1..MaxProcs}

\* _integrate is entered by the unforked original process
IntegrateInit ==
  /\ BasisIdle
  /\ EdgeIdle
  /\ TopoIdle
  /\ cfg \in Configs
  /\ offsets = [b \in 1..Len(cfg.block2func) |-> [k \in 1..(cfg.nelems + 1) |-> 0]]
  /\ nvals = [f \in 1..cfg.nfuncs |-> 0]
  /\ data = <<>>
  /\ wlog = <<>>
  /\ pc = [p \in Procs |-> IF p = 0 THEN "pass1" ELSE "absent"]
  /\ procid = [p \in Procs |-> None]
  /\ child_pid = [p \in Procs |-> None]
  /\ iiter = [p \in Procs |-> 0]
  /\ enum_n = [p \in Procs |-> -1]
  /\ shared_iter = 0
  /\ lock = None
  /\ exc = [p \in Procs |-> FALSE]
  /\ status = [p \in Procs |-> -1]
  /\ handled = [p \in Procs |-> <<>>]
  /\ assertfail = FALSE
  /\ ielem1 = 0

\* first element loop: offsets[iblock,ielem1+1] = offsets[iblock,ielem1] + n
Pass1Elem ==
  /\ pc[0] = "pass1"
  /\ ielem1 < cfg.nelems
  /\ offsets' = [b \in DOMAIN offsets |->
                   [offsets[b] EXCEPT ![ielem1 + 2] = offsets[b][ielem1 + 1] + BlockSize(b, ielem1)]]
  /\ ielem1' = ielem1 + 1
  /\ UNCHANGED <<basisvars, edgevars, topovars, cfg, nvals, data, wlog, pc, procid, child_pid, iiter, enum_n,
                 shared_iter, lock, exc, status, handled, assertfail>>

\* post-processing of the offsets and allocation of the arrays with shzeros
Allocate ==
  /\ pc[0] = "pass1"
  /\ ielem1 = cfg.nelems
  /\ LET r == ShiftOffsets(offsets, nvals, 1)
     IN /\ offsets' = r.offsets
        /\ nvals' = r.nvals
        /\ data' = [f \in DOMAIN nvals |-> [k \in 1..r.nvals[f] |-> <<>>]]
        /\ wlog' = [f \in DOMAIN nvals |-> [k \in 1..r.nvals[f] |-> <<>>]]
  /\ pc' = [pc EXCEPT ![0] = "pariter"]
  /\ UNCHANGED <<basisvars, edgevars, topovars, cfg, procid, child_pid, iiter, enum_n,
                 shared_iter, lock, exc, status, handled, assertfail, ielem1>>

\* parallel.pariter with nprocs <= 1: the iterable itself
PariterSerial ==
  /\ pc[0] = "pariter"
  /\ cfg.nprocs <= 1
  /\ pc' = [pc EXCEPT ![0] = "loop"]
  /\ UNCHANGED <<basisvars, edgevars, topovars, cfg, offsets, nvals, data, wlog, procid, child_pid, iiter, enum_n,
                 shared_iter, lock, exc, status, handled, assertfail, ielem1>>

\* as CounterStart, the counter starting one item early
CounterStart_early == cfg.nprocs - 1

\* shared_iter = multiprocessing.RawValue('i', nprocs)
CounterStart == cfg.nprocs

\* shared_iter.value = iiter + 1
NextCounter(i) == i + 1

\* parallel._pariter: the shared counter starts at nprocs, Fork is entered
\* and process 0 takes the first value of the loop in Fork.__enter__
PariterFork ==
  /\ pc[0] = "pariter"
  /\ cfg.nprocs > 1
  /\ procid[0] = None
  /\ shared_iter' = CounterStart
  /\ lock' = None
  /\ procid' = [procid EXCEPT ![0] = 0]
  /\ pc' = [pc EXCEPT ![0] = "enter"]
  /\ UNCHANGED <<basisvars, edgevars, topovars, cfg, offsets, nvals, data, wlog, child_pid, iiter, enum_n,
                 exc, status, handled, assertfail, ielem1>>

\* Fork.__enter__, os.fork() returning in the parent p and in the child p + 1:
\* the parent leaves the loop, the child goes on with the next procid
ForkChild(p) ==
  /\ pc[p] = "enter"
  /\ procid[p] < cfg.nprocs - 1
  /\ child_pid' = [child_pid EXCEPT ![p] = p + 1, ![p + 1] = child_pid[p]]
  /\ procid' = [procid EXCEPT ![p + 1] = procid[p] + 1]
  /\ iiter' = [iiter EXCEPT ![p] = procid[p]]
  /\ enum_n' = [enum_n EXCEPT ![p + 1] = enum_n[p]]
  /\ pc' = [pc EXCEPT ![p] = "loop", ![p + 1] = "enter"]
  /\ UNCHANGED <<basisvars, edgevars, topovars, cfg, offsets, nvals, data, wlog,
                 shared_iter, lock, exc, status, handled, assertfail, ielem1>>

\* Fork.__enter__, the else clause of the loop: the last process has no child
ForkLast(p) ==
  /\ pc[p] = "enter"
  /\ procid[p] >= cfg.nprocs - 1
  /\ child_pid' = [child_pid EXCEPT ![p] = 0]
  /\ procid' = [procid EXCEPT ![p] = cfg.nprocs - 1]
  /\ iiter' = [iiter EXCEPT ![p] = cfg.nprocs - 1]
  /\ pc' = [pc EXCEPT ![p] = "loop"]
  /\ UNCHANGED <<basisvars, edgevars, topovars, cfg, offsets, nvals, data, wlog, enum_n,
                 shared_iter, lock, exc, status, handled, assertfail, ielem1>>

Serial == cfg.nprocs <= 1

\* for n, it in enumerate(iterable): the next item, skipped while n < iiter
NextItem(p) ==
  /\ pc[p] = "loop"
  /\ enum_n[p] + 1 < cfg.nelems
  /\ enum_n' = [enum_n EXCEPT ![p] = enum_n[p] + 1]
  /\ IF Serial \/ enum_n[p] + 1 = iiter[p]
     THEN /\ pc' = [pc EXCEPT ![p] = "body"]
          /\ handled' = [handled EXCEPT ![p] = Append(handled[p], enum_n[p] + 1)]
          /\ UNCHANGED <<exc, assertfail>>
     ELSE IF enum_n[p] + 1 < iiter[p]
     THEN UNCHANGED <<pc, handled, exc, assertfail>>
     ELSE /\ assertfail' = TRUE
          /\ exc' = [exc EXCEPT ![p] = TRUE]
          /\ pc' = [pc EXCEPT ![p] = "exit"]
          /\ UNCHANGED handled
  /\ UNCHANGED <<basisvars, edgevars, topovars, cfg, offsets, nvals, data, wlog, procid, child_pid, iiter,
                 shared_iter, lock, status, ielem1>>

\* the iterable is exhausted: the with-block of _pariter is left normally
EndOfItems(p) ==
  /\ pc[p] = "loop"
  /\ enum_n[p] + 1 >= cfg.nelems
  /\ pc' = [pc EXCEPT ![p] = IF Serial THEN "done" ELSE "exit"]
  /\ UNCHANGED <<basisvars, edgevars, topovars, cfg, offsets, nvals, data, wlog, procid, child_pid, iiter, enum_n,
                 shared_iter, lock, exc, status, handled, assertfail, ielem1>>

\* the loop body of _integrate for the yielded element; no lock is held
Body(p) ==
  /\ pc[p] = "body"
  /\ data' = FillElem(data, offsets, enum_n[p], 1)
  /\ wlog' = LogElem(wlog, offsets, enum_n[p], 1, p)
  /\ pc' = [pc EXCEPT ![p] = IF Serial THEN "loop" ELSE "lock"]
  /\ UNCHANGED <<basisvars, edgevars, topovars, cfg, offsets, nvals, procid, child_pid, iiter, enum_n,
                 shared_iter, lock, exc, status, handled, assertfail, ielem1>>

\* the loop body raises: the generator is closed with GeneratorExit
BodyRaises(p) ==
  /\ pc[p] = "body"
  /\ exc' = [exc EXCEPT ![p] = TRUE]
  /\ pc' = [pc EXCEPT ![p] = IF Serial THEN "raised" ELSE "exit"]
  /\ UNCHANGED <<basisvars, edgevars, topovars, cfg, offsets, nvals, data, wlog, procid, child_pid, iiter, enum_n,
                 shared_iter, lock, status, handled, assertfail, ielem1>>

\* as LockFree, the lock granted although another process holds it
LockFree_always == TRUE

LockFree == lock = None

\* with lock: blocks until the lock is free
Acquire(p) ==
  /\ pc[p] = "lock"
  /\ LockFree
  /\ lock' = p
  /\ pc' = [pc EXCEPT ![p] = "read"]
  /\ UNCHANGED <<basisvars, edgevars, topovars, cfg, offsets, nvals, data, wlog, procid, child_pid, iiter, enum_n,
                 shared_iter, exc, status, handled, assertfail, ielem1>>

\* iiter = shared_iter.value
ReadCounter(p) ==
  /\ pc[p] = "read"
  /\ iiter' = [iiter EXCEPT ![p] = shared_iter]
  /\ pc' = [pc EXCEPT ![p] = "write"]
  /\ UNCHANGED <<basisvars, edgevars, topovars, cfg, offsets, nvals, data, wlog, procid, child_pid, enum_n,
                 shared_iter, lock, exc, status, handled, assertfail, ielem1>>

\* as WriteCounter, the lock not released
WriteCounter_keeplock(p) ==
  /\ pc[p] = "write"
  /\ shared_iter' = NextCounter(iiter[p])
  /\ pc' = [pc EXCEPT ![p] = "loop"]
  /\ UNCHANGED <<basisvars, edgevars, topovars, cfg, offsets, nvals, data, wlog, procid, child_pid, iiter, enum_n,
                 lock, exc, status, handled, assertfail, ielem1>>

\* shared_iter.value = iiter + 1, and the lock is released
WriteCounter(p) ==
  /\ pc[p] = "write"
  /\ shared_iter' = NextCounter(iiter[p])
  /\ lock' = None
  /\ pc' = [pc EXCEPT ![p] = "loop"]
  /\ UNCHANGED <<basisvars, edgevars, topovars, cfg, offsets, nvals, data, wlog, procid, child_pid, iiter, enum_n,
                 exc, status, handled, assertfail, ielem1>>

\* as ChildExited, the child not waited for
ChildExited_nowait(p) == TRUE

\* os.waitpid(self.child_pid, 0) returns once the child has exited
ChildExited(p) == child_pid[p] <= 0 \/ pc[child_pid[p]] = "exited"

\* as ExitStatus, the status of the child not taken over
ExitStatus_ownonly(p) == IF exc[p] THEN 1 ELSE 0

\* the status Fork.__exit__ computes once the child, if any, has been waited for
ExitStatus(p) ==
  IF exc[p] THEN 1
  ELSE IF child_pid[p] > 0 /\ status[child_pid[p]] # 0 THEN 1
  ELSE 0

\* Fork.__exit__ in a forked worker: os.waitpid on the child, then os._exit(status)
ExitWorker(p) ==
  /\ pc[p] = "exit"
  /\ child_pid[p] # None
  /\ procid[p] > 0
  /\ ChildExited(p)
  /\ status' = [status EXCEPT ![p] = ExitStatus(p)]
  /\ pc' = [pc EXCEPT ![p] = "exited"]
  /\ UNCHANGED <<basisvars, edgevars, topovars, cfg, offsets, nvals, data, wlog, procid, child_pid, iiter, enum_n,
                 shared_iter, lock, exc, handled, assertfail, ielem1>>

\* as ExitOriginal, the global procid not reset
ExitOriginal_keepprocid(p) ==
  /\ pc[p] = "exit"
  /\ child_pid[p] # None
  /\ procid[p] = 0
  /\ ChildExited(p)
  /\ pc' = [pc EXCEPT ![p] = IF exc[p] \/ ExitStatus(p) # 0 THEN "raised" ELSE "done"]
  /\ UNCHANGED <<basisvars, edgevars, topovars, cfg, offsets, nvals, data, wlog, procid, child_pid, iiter, enum_n,
                 shared_iter, lock, exc, status, handled, assertfail, ielem1>>

\* Fork.__exit__ in the original process: os.waitpid on the child, procid = None,
\* and assert status == 0 unless an exception is already on its way
ExitOriginal(p) ==
  /\ pc[p] = "exit"
  /\ child_pid[p] # None
  /\ procid[p] = 0
  /\ ChildExited(p)
  /\ procid' = [procid EXCEPT ![p] = None]
  /\ pc' = [pc EXCEPT ![p] = IF exc[p] \/ ExitStatus(p) # 0 THEN "raised" ELSE "done"]
  /\ UNCHANGED <<basisvars, edgevars, topovars, cfg, offsets, nvals, data, wlog, child_pid, iiter, enum_n,
                 shared_iter, lock, exc, status, handled, assertfail, ielem1>>

\* return data_index
ReturnData ==
  /\ pc[0] = "done"
  /\ pc' = [pc EXCEPT ![0] = "returned"]
  /\ UNCHANGED <<basisvars, edgevars, topovars, cfg, offsets, nvals, data, wlog, procid, child_pid, iiter, enum_n,
                 shared_iter, lock, exc, status, handled, assertfail, ielem1>>

IntegrateNext ==
  \/ Pass1Elem
  \/ Allocate
  \/ PariterSerial
  \/ PariterFork
  \/ \E p \in Procs : ForkChild(p)
  \/ \E p \in Procs : ForkLast(p)
  \/ \E p \in Procs : NextItem(p)
  \/ \E p \in Procs : EndOfItems(p)
  \/ \E p \in Procs : Body(p)
  \/ \E p \in Procs : BodyRaises(p)
  \/ \E p \in Procs : Acquire(p)
  \/ \E p \in Procs : ReadCounter(p)
  \/ \E p \in Procs : WriteCounter(p)
  \/ \E p \in Procs : ExitWorker(p)
  \/ \E p \in Procs : ExitOriginal(p)
  \/ ReturnData

(***************************************************************************)
(* The bases the model constructs.  Tables are well formed: the dofs of an *)
(* element are distinct and strictly increasing in a PlainBasis, and along *)
(* a periodic axis an element has no more local functions than the axis    *)
(* has dofs, so that a function does not wrap onto itself.                 *)
(***************************************************************************)
LocalDofs(ndofs) ==
  {SortSet(S) : S \in {T \in SUBSET (0..(ndofs - 1)) : Cardinality(T) <= MaxLocal}}

\* coefficient rows: row k of element e is the integer 10*e + k
Rows(e, n) == [k \in 1..n |-> 10 * e + k]

\* the elements are listed in the order of their sets of dofs
PlainBases ==
  UNION {UNION {{PlainBasis([e \in 1..n |-> Rows(e, Len(d[e]))], d, nd) :
                   d \in {d \in [1..n -> LocalDofs(nd)] :
                            \A e \in 1..(n - 1) : SetCode(d[e]) <= SetCode(d[e + 1])}} :
                n \in 1..MaxElems} :
         nd \in 1..MaxDofs}

DiscontBases ==
  UNION {{DiscontBasis([e \in 1..n |-> Rows(e, l[e])]) : l \in [1..n -> 0..MaxLocal]} :
         n \in 1..MaxElems}

\* one axis of a structured grid: n elements of degree p, element i holding the
\* functions stride*i .. stride*i+p, with stride p (std) or 1 (spline)
AxisDofs(a) ==
  LET stride == IF a.std THEN a.p ELSE 1
  IN IF a.periodic THEN a.n * stride ELSE (a.n - 1) * stride + a.p + 1

Axes(nmax) ==
  {a \in [n : 1..nmax, p : 1..MaxDegree, std : BOOLEAN, periodic : BOOLEAN] :
     a.p + 1 <= AxisDofs(a)}

AxisStart(a) == [i \in 1..a.n |-> (IF a.std THEN a.p ELSE 1) * (i - 1)]
AxisStop(a) == [i \in 1..a.n |-> AxisStart(a)[i] + a.p + 1]
AxisCoeffs(a, base) == [i \in 1..a.n |-> [k \in 1..(a.p + 1) |-> base + (a.p + 1) * (i - 1) + k]]

StructuredBases ==
  {StructuredBasis(<<AxisCoeffs(a, 0)>>, <<AxisStart(a)>>, <<AxisStop(a)>>,
                   <<AxisDofs(a)>>, <<a.n>>) : a \in Axes(MaxGridElems)}
  \cup
  {StructuredBasis(<<AxisCoeffs(ab[1], 0), AxisCoeffs(ab[2], 20)>>,
                   <<AxisStart(ab[1]), AxisStart(ab[2])>>,
                   <<AxisStop(ab[1]), AxisStop(ab[2])>>,
                   <<AxisDofs(ab[1]), AxisDofs(ab[2])>>, <<ab[1].n, ab[2].n>>) :
     ab \in {x \in Axes(MaxGridElems) \X Axes(MaxGridElems) : x[1].n * x[2].n <= MaxGridElems}}

BaseBases == PlainBases \cup DiscontBases \cup StructuredBases
BaseKinds == {"plain", "discont", "structured"}

Elems(b) == 0..(b.nelems - 1)
Dofs(b) == 0..(b.ndofs - 1)

(***************************************************************************)
(* Specification of the Basis family: a basis is constructed, possibly     *)
(* masked (Basis.__getitem__) or pruned, and then queried.                 *)
(***************************************************************************)
BasisInit ==
  /\ basis \in BaseBases
  /\ op = ""
  /\ arg = NoArg
  /\ arg2 = NoArg
  /\ res = Ok(<<>>)
  /\ ParIdle
  /\ EdgeIdle
  /\ TopoIdle

\* Basis.__getitem__ with a strictly increasing index array or a boolean mask
Mask ==
  /\ op = ""
  /\ basis.kind \in BaseKinds
  /\ basis.ndofs <= MaxDofs
  /\ \E S \in SUBSET Dofs(basis) :
       /\ basis' = MaskedBasis(basis, SortSet(S))
       /\ op' = ""
       /\ arg' = NoArg
       /\ arg2' = NoArg
       /\ res' = Ok(<<>>)
       /\ UNCHANGED <<parvars, edgevars, topovars>>

\* PrunedBasis(parent, transmap)
Prune ==
  /\ op = ""
  /\ basis.kind \in BaseKinds
  /\ basis.ndofs <= MaxDofs
  /\ \E S \in SUBSET Elems(basis) :
       /\ basis' = PrunedBasis(basis, SortSet(S))
       /\ op' = ""
       /\ arg' = NoArg
       /\ arg2' = NoArg
       /\ res' = Ok(<<>>)
       /\ UNCHANGED <<parvars, edgevars, topovars>>

GetDofs ==
  /\ op = ""
  /\ \E e \in (-basis.nelems - 1)..basis.nelems :
    /\ op' = "get_dofs"
    /\ arg' = IntArg(e)
    /\ arg2' = NoArg
    /\ res' = get_dofs(basis, IntArg(e))
    /\ UNCHANGED <<basis, parvars, edgevars, topovars>>

GetDofsArray ==
  /\ op = ""
  /\ \E S \in SUBSET Elems(basis), asmask \in BOOLEAN :
    /\ op' = "get_dofs_array"
    /\ arg' = IF asmask THEN BoolArray(1, [k \in 1..basis.nelems |-> (k - 1) \in S])
                        ELSE IntArray(1, SortSet(S))
    /\ arg2' = NoArg
    /\ res' = get_dofs(basis, arg')
    /\ UNCHANGED <<basis, parvars, edgevars, topovars>>

\* get_dofs of the union of two disjoint element sets
GetDofsUnion ==
  /\ op = ""
  /\ \E A \in SUBSET Elems(basis) :
    \E B \in SUBSET (Elems(basis) \ A) :
      /\ op' = "get_dofs_union"
      /\ arg' = IntArray(1, SortSet(A))
      /\ arg2' = IntArray(1, SortSet(B))
      /\ res' = get_dofs(basis, IntArray(1, SortSet(A \cup B)))
      /\ UNCHANGED <<basis, parvars, edgevars, topovars>>

GetSupport ==
  /\ op = ""
  /\ \E d \in (-basis.ndofs - 1)..basis.ndofs :
    /\ op' = "get_support"
    /\ arg' = IntArg(d)
    /\ arg2' = NoArg
    /\ res' = get_support(basis, IntArg(d))
    /\ UNCHANGED <<basis, parvars, edgevars, topovars>>

GetCoefficients ==
  /\ op = ""
  /\ \E e \in (-basis.nelems - 1)..basis.nelems :
    /\ op' = "get_coefficients"
    /\ arg' = IntArg(e)
    /\ arg2' = NoArg
    /\ res' = get_coefficients(basis, e)
    /\ UNCHANGED <<basis, parvars, edgevars, topovars>>

\* the caller takes the result; the basis is ready for the next call
Return ==
  /\ op # ""
  /\ op' = ""
  /\ arg' = NoArg
  /\ arg2' = NoArg
  /\ res' = Ok(<<>>)
  /\ UNCHANGED <<basis, parvars, edgevars, topovars>>

BasisNext ==
  \/ Return
  \/ Mask
  \/ Prune
  \/ GetDofs
  \/ GetDofsArray
  \/ GetDofsUnion
  \/ GetSupport
  \/ GetCoefficients

vars == <<basisvars, parvars, edgevars, topovars>>

SpecBasis == BasisInit /\ [][BasisNext]_vars

\* integration of one or two functions of one or two blocks
SpecIntegrate == IntegrateInit /\ [][IntegrateNext]_vars

(***************************************************************************)
(* Specification of the argument checks of the Basis family: a basis is    *)
(* constructed, possibly masked through the MaskedBasis constructor with   *)
(* any index array or pruned, and get_dofs and get_support are called with *)
(* scalars and arrays inside and outside the range of the basis.           *)
(***************************************************************************)
\* entries near both ends of range(n)
EdgeEntries(n) == {-1, 0, n - 1, n}

\* integer arrays of one and two dimensions, given by their flattened entries
EdgeIntArrays(n) ==
  {IntArray(d, v) : d \in {1, 2},
                    v \in {<<>>} \cup {<<x>> : x \in EdgeEntries(n)}
                                \cup {<<0, x>> : x \in EdgeEntries(n)}}

\* boolean arrays of n - 1, n and n + 1 entries, of one and two dimensions
EdgeBoolArrays(n) ==
  {BoolArray(d, [k \in 1..l |-> TRUE]) : d \in {1, 2}, l \in {l \in {n - 1, n, n + 1} : l >= 0}}

CallArgs(n) ==
  {IntArg(i) : i \in {-n - 1, -n, n - 1, n}} \cup EdgeIntArrays(n) \cup EdgeBoolArrays(n)

\* MaskedBasis(parent, indices) with any index array
Construct ==
  /\ op = ""
  /\ basis.kind \in BaseKinds
  /\ basis.ndofs <= MaxDofs
  /\ \E indices \in EdgeIntArrays(basis.ndofs) \cup
                     {IntArray(1, SortSet(S)) : S \in SUBSET Dofs(basis)} :
       \E r \in {MaskedBasis_init(basis, indices)} :
         /\ basis' = IF r.ok THEN r.v ELSE basis
         /\ op' = "MaskedBasis"
         /\ arg' = indices
         /\ arg2' = NoArg
         /\ res' = IF r.ok THEN Ok(<<>>) ELSE r
         /\ UNCHANGED <<parvars, edgevars, topovars>>

CallGetDofs ==
  /\ op = ""
  /\ \E ielem \in CallArgs(basis.nelems) :
       /\ op' = "get_dofs"
       /\ arg' = ielem
       /\ arg2' = NoArg
       /\ res' = get_dofs(basis, ielem)
       /\ UNCHANGED <<basis, parvars, edgevars, topovars>>

CallGetSupport ==
  /\ op = ""
  /\ \E dof \in CallArgs(basis.ndofs) :
       /\ op' = "get_support"
       /\ arg' = dof
       /\ arg2' = NoArg
       /\ res' = get_support(basis, dof)
       /\ UNCHANGED <<basis, parvars, edgevars, topovars>>

CallGetNdofs ==
  /\ op = ""
  /\ \E ielem \in (-basis.nelems - 1)..basis.nelems :
       /\ op' = "get_ndofs"
       /\ arg' = IntArg(ielem)
       /\ arg2' = NoArg
       /\ res' = get_ndofs(basis, ielem)
       /\ UNCHANGED <<basis, parvars, edgevars, topovars>>

ArgsNext ==
  \/ Return
  \/ Construct
  \/ Prune
  \/ CallGetDofs
  \/ CallGetSupport
  \/ CallGetNdofs

SpecArgs == BasisInit /\ [][ArgsNext]_vars

(***************************************************************************)
(* Properties of the Basis family.                                         *)
(***************************************************************************)
RECURSIVE Insert(_, _)
Insert(x, s) ==
  IF s = <<>> THEN <<x>>
  ELSE IF x <= Head(s) THEN <<x>> \o s
  ELSE <<Head(s)>> \o Insert(x, Tail(s))

\* Python's sorted(): duplicates are kept
RECURSIVE sorted(_)
sorted(s) == IF s = <<>> THEN <<>> ELSE Insert(Head(s), sorted(Tail(s)))

\* C1: for every element e and every dof d of the basis, e is in
\* get_support(d) if and only if d is in get_dofs(e).
C1_SupportIffDofs ==
  (op = "get_support" /\ arg.n \in Dofs(basis)) =>
    /\ res.ok
    /\ \A e \in Elems(basis) :
         LET t == get_dofs(basis, IntArg(e))
         IN t.ok /\ ((e \in Ran(res.v)) <=> (arg.n \in Ran(t.v)))

\* a support with several elements was computed for a wrapped-around dof
C1_Witness ==
  /\ op = "get_support"
  /\ res.ok
  /\ Len(res.v) >= 2
  /\ basis.kind = "structured"
  /\ \E e \in Ran(res.v) : ~ IsStrictlyIncreasing(get_dofs(basis, IntArg(e)).v)

UnionOfDofs(b, S) == SortSet(UNION {Ran(get_dofs(b, IntArg(e)).v) : e \in S})

\* C3: get_dofs of the index array of the union of two disjoint element sets
\* is the sorted duplicate-free union of get_dofs of the two sets, and get_dofs
\* of an index array or mask is the sorted duplicate-free union over the
\* selected single elements.
C3_DofsOfUnion ==
  /\ op = "get_dofs_union" =>
       LET a == get_dofs(basis, arg)
           b == get_dofs(basis, arg2)
       IN /\ res.ok /\ a.ok /\ b.ok
          /\ res.v = SortSet(Ran(a.v) \cup Ran(b.v))
          /\ res.v = UnionOfDofs(basis, Ran(arg.v) \cup Ran(arg2.v))
          /\ IsStrictlyIncreasing(res.v)
  /\ op = "get_dofs_array" =>
       /\ res.ok
       /\ res.v = UnionOfDofs(basis, IF arg.t = "boolarray" THEN Ran(Where(arg.m)) ELSE Ran(arg.v))
       /\ IsStrictlyIncreasing(res.v)

\* two disjoint non-empty element sets that share a dof were united
C3_Witness ==
  /\ op = "get_dofs_union"
  /\ arg.v # <<>>
  /\ arg2.v # <<>>
  /\ Ran(get_dofs(basis, arg).v) \cap Ran(get_dofs(basis, arg2).v) # {}
  /\ res.ok
  /\ Len(res.v) >= 2


\* C14: for a MaskedBasis of parent P with indices I and every element e,
\* get_coefficients(e) holds the rows of P.get_coefficients(e) whose parent
\* dof is in I, in the order of P.get_dofs(e), and row k belongs to the dof
\* get_dofs(e)[k], the position in I of that parent dof.
C14_MaskedRowsFollowParentOrder ==
  (basis.kind = "masked" /\ op = "get_coefficients" /\ arg.n \in Elems(basis)) =>
    /\ res.ok
    /\ \A pd \in {get_dofs(basis.parent, arg)}, pcf \in {get_coefficients(basis.parent, arg.n)},
          md \in {get_dofs(basis, arg)} :
         /\ pd.ok /\ pcf.ok /\ md.ok
         /\ \A kept \in {SelectSeq(Arange(1, Len(pd.v) + 1),
                                    LAMBDA k : pd.v[k] \in Ran(basis.indices))} :
              /\ Len(res.v) = Len(kept)
              /\ Len(md.v) = Len(kept)
              /\ \A j \in DOMAIN kept :
                   /\ res.v[j] = pcf.v[kept[j]]
                   /\ At(basis.indices, md.v[j]) = pd.v[kept[j]]

\* get_coefficients of a masked basis returns at least two rows, not in the
\* order of their dofs, and leaves out a row of the parent
C14_Witness ==
  /\ basis.kind = "masked" /\ op = "get_coefficients" /\ arg.n \in Elems(basis)
  /\ res.ok
  /\ Len(res.v) >= 2
  /\ Len(res.v) < Len(get_coefficients(basis.parent, arg.n).v)
  /\ ~IsStrictlyIncreasing(get_dofs(basis, arg).v)

(***************************************************************************)
(* Properties of Topology._integrate and parallel._pariter                 *)
(***************************************************************************)

\* the blocks that belong to function argument f
Blocks(f) == {b \in 1..NBlocks : cfg.block2func[b] + 1 = f}

\* the (block, element) pairs whose values go to the arrays of f
Owners(f) == {<<b, e>> : b \in Blocks(f), e \in Items}

\* the first element loop and the post-processing of the offsets are over
Pass1Done == pc[0] \notin {"absent", "pass1"}

\* the original process has left the element loop
Left == {"done", "raised", "returned"}

\* C4: after pass 1, for every function argument the ranges
\* [offsets[iblock,ielem], offsets[iblock,ielem+1]) of its blocks and all
\* elements are pairwise disjoint and cover [0, nvals[ifunc]); no slot is
\* written twice, and when the loop has completed every slot has been
\* written exactly once.
C4_RangesPartitionSlots ==
  Pass1Done =>
    \A f \in 1..NFuncs :
      /\ \A o1, o2 \in Owners(f) :
           o1 # o2 => Slice(offsets, o1[1], o1[2]) \cap Slice(offsets, o2[1], o2[2]) = {}
      /\ UNION {Slice(offsets, o[1], o[2]) : o \in Owners(f)} = 1..nvals[f]
      /\ Len(data[f]) = nvals[f]
      /\ \A k \in 1..nvals[f] : Len(wlog[f][k]) <= 1
      /\ pc[0] \in {"done", "returned"} => \A k \in 1..nvals[f] : Len(wlog[f][k]) = 1

\* a parallel integration has returned the arrays of a function of two
\* blocks with at least three values
C4_Witness ==
  /\ pc[0] = "returned"
  /\ cfg.nprocs >= 2
  /\ cfg.nelems >= 2
  /\ \E f \in 1..NFuncs : Cardinality(Blocks(f)) = 2 /\ nvals[f] >= 3
  /\ \E f \in 1..NFuncs : \E k \in 1..nvals[f] : wlog[f][k] = <<1>>

\* the arrays as allocated by shzeros
ZeroData == [f \in DOMAIN nvals |-> [k \in 1..nvals[f] |-> <<>>]]

\* the arrays of the serial run: the elements in order, from element e on
RECURSIVE SerialFill(_, _)
SerialFill(d, e) ==
  IF e >= cfg.nelems THEN d ELSE SerialFill(FillElem(d, offsets, e, 1), e + 1)

\* C5: the arrays returned by _integrate equal those of the serial run, for
\* every number of processes, every assignment of elements to processes
\* and every interleaving.
C5_ResultEqualsSerial ==
  pc[0] = "returned" => data = SerialFill(ZeroData, 0)

\* three processes have shared three elements with values and the arrays
\* have been returned
C5_Witness ==
  /\ pc[0] = "returned"
  /\ cfg.nprocs = 3
  /\ cfg.nelems = 3
  /\ \A p \in Procs : Len(handled[p]) = 1
  /\ \A f \in 1..NFuncs : nvals[f] >= 3

\* the number of times item i has been yielded to the loop body
Yields(i) ==
  Cardinality({pk \in Procs \X (1..(MaxItems + 1)) :
                 pk[2] \in DOMAIN handled[pk[1]] /\ handled[pk[1]][pk[2]] = i})

\* C6: with nprocs >= 2 no item is yielded twice, in one process or in two,
\* only items 0..N-1 are yielded, the assertion n == iiter never fails, and
\* when the loop has completed every item has been yielded exactly once.
C6_EachItemOnce ==
  cfg.nprocs >= 2 =>
    /\ ~assertfail
    /\ \A p \in Procs : \A k \in DOMAIN handled[p] : handled[p][k] \in Items
    /\ \A i \in Items : Yields(i) <= 1
    /\ pc[0] \in {"done", "returned"} => \A i \in Items : Yields(i) = 1

\* fewer items than processes: three processes, two items, the last
\* process finds nothing to do and the loop completes
C6_Witness ==
  /\ pc[0] = "done"
  /\ cfg.nprocs = 3
  /\ cfg.nelems = 2
  /\ handled = [p \in Procs |-> IF p = 0 THEN <<0>> ELSE IF p = 1 THEN <<1>> ELSE <<>>]
  /\ pc[2] = "exited"

\* C7: a forked worker in which an exception is raised leaves the loop and
\* exits with a nonzero status, and the original process then raises when
\* it leaves the context, whichever worker failed: the loop never completes
\* normally after a worker failure.
C7_WorkerFailurePropagates ==
  /\ \A p \in Procs \ {0} : exc[p] => pc[p] \in {"exit", "exited"}
  /\ \A p \in Procs \ {0} : exc[p] /\ pc[p] = "exited" => status[p] # 0
  /\ (\E p \in Procs \ {0} : exc[p]) /\ pc[0] \in Left => pc[0] = "raised"

\* only the last worker of three processes failed, which is not the direct
\* child of the original process, and the original process has raised
C7_Witness ==
  /\ cfg.nprocs = 3
  /\ exc[2] /\ ~exc[1] /\ ~exc[0]
  /\ status[2] # 0
  /\ pc[0] = "raised"


\* a step of process p inside the Fork context of _pariter
Step(p) ==
  \/ ForkChild(p)
  \/ ForkLast(p)
  \/ NextItem(p)
  \/ EndOfItems(p)
  \/ Body(p)
  \/ BodyRaises(p)
  \/ Acquire(p)
  \/ ReadCounter(p)
  \/ WriteCounter(p)
  \/ ExitWorker(p)
  \/ ExitOriginal(p)

\* process p is inside the Fork context and has not terminated
Running(p) == pc[p] \in {"enter", "loop", "body", "lock", "read", "write", "exit"}

\* process p cannot take a step until another process has taken one
Blocked(p) == Running(p) /\ ~ENABLED Step(p)

\* the original process is past the context only when every forked process
\* has exited
LeftAfterWorkers ==
  pc[0] \in Left => \A p \in Procs \ {0} : pc[p] \in {"absent", "exited"}

\* C8 as stated: the original process is past the context only when every
\* forked process has exited, and a process is blocked by another only in
\* the teardown of the context, waiting for its child.
C8_OnlyTeardownBlocks ==
  /\ LeftAfterWorkers
  /\ \A p \in Procs : Blocked(p) => pc[p] = "exit"

\* C8, amended: the original process is past the context only when every
\* forked process has exited; a process is blocked by another either in the
\* teardown of the context, waiting for its child to exit, or in _pariter,
\* waiting for the lock of the shared counter that another process holds.
C8_TeardownOrLockBlocks ==
  /\ LeftAfterWorkers
  /\ \A p \in Procs :
       Blocked(p) =>
         \/ pc[p] = "exit" /\ child_pid[p] > 0 /\ Running(child_pid[p])
         \/ pc[p] = "lock" /\ lock \in Procs \ {p} /\ pc[lock] \in {"read", "write"}

\* the original process has left the context of three processes normally,
\* after each worker handled an item and exited
C8_Witness ==
  /\ pc[0] = "done"
  /\ cfg.nprocs = 3
  /\ \A p \in Procs \ {0} : pc[p] = "exited" /\ Len(handled[p]) = 1

\* the slots of the arrays of f that process p has written
Written(p, f) ==
  {k \in 1..nvals[f] : \E j \in DOMAIN wlog[f][k] : wlog[f][k][j] = p}

IsInterval(S) == \A a, b \in S : \A k \in a..b : k \in S

\* C9 as stated: when the value-fill loop has completed, the slots each
\* process has written form one contiguous range per array, disjoint from
\* the ranges of the other processes.
C9_ContiguousRangePerWorker ==
  pc[0] = "returned" =>
    /\ \A f \in 1..NFuncs : \A p \in Procs : IsInterval(Written(p, f))
    /\ \A f \in 1..NFuncs : \A p, q \in Procs : p # q => Written(p, f) \cap Written(q, f) = {}

\* C9, amended: a process writes only to the ranges of the elements that
\* were yielded to it, every range is the contiguous range the offset table
\* gives, the slots written by different processes are disjoint, and the
\* lock of the shared counter is not held by a process that is writing.
C9_WritesOnlyOwnElements ==
  Pass1Done =>
    /\ \A f \in 1..NFuncs : \A k \in 1..nvals[f] :
         /\ \A j \in DOMAIN wlog[f][k] :
              \E b \in Blocks(f) : \E e \in Ran(handled[wlog[f][k][j]]) : k \in Slice(offsets, b, e)
         /\ Cardinality(Ran(wlog[f][k])) <= 1
    /\ \A p \in Procs : pc[p] = "body" => lock # p
    /\ \A p \in Procs : lock = p => pc[p] \in {"read", "write"}

\* the original process of two has written the ranges of the first and the
\* last of three elements, which the range of the other process separates
C9_Witness ==
  /\ pc[0] = "returned"
  /\ cfg.nprocs = 2
  /\ handled = [p \in Procs |-> IF p = 0 THEN <<0, 2>> ELSE IF p = 1 THEN <<1>> ELSE <<>>]
  /\ \E f \in 1..NFuncs : ~IsInterval(Written(0, f)) /\ Written(1, f) # {}


(***************************************************************************)
(* Topology.edge_search, boundary and interfaces (nutils/topology.py).     *)
(* An element is a simplex given by its vertices; its reference lists the  *)
(* vertices of every edge as a row of the boolean table edge2vertex.       *)
(***************************************************************************)
Verts == 1..MaxVerts

\* a line (two vertices) or a triangle (three vertices)
Element(vertices) == [vertices |-> vertices, ndims |-> Len(vertices) - 1]

\* the reference's table edge2vertex of a simplex: edge iedge holds all
\* vertices but vertex iedge
edge2vertex(elem) ==
  [iedge \in 1..Len(elem.vertices) |-> [k \in 1..Len(elem.vertices) |-> k # iedge]]

\* elem.edge(iedge) of element ielem; a boundary edge has no opposite
Edge(ielem, iedge) ==
  [ielem |-> ielem, iedge |-> iedge, ndims |-> At(mesh, ielem).ndims - 1, opposite |-> <<>>]

\* edgekey = tuple( sorted( c for c, n in zip( elemcoords, iverts ) if n ) )
edgekey(ielem, iedge) ==
  sorted(Compress(At(edge2vertex(At(mesh, ielem)), iedge), At(mesh, ielem).vertices))

\* Topology.__init__ with ndims=None: self.elements[0].ndims fails on an empty
\* tuple of elements.  The elements are kept as a set: the order of
\* edges.values() is that of a dict and all elements have the same ndims.
Topology(elements) ==
  IF elements = {} THEN Err("IndexError")
  ELSE Ok([elements |-> elements, ndims |-> (CHOOSE e \in elements : TRUE).ndims])

\* the vertex tuples of the elements: ascending or descending
VertexTuples(nverts) ==
  {t \in [1..nverts -> Verts] :
     \/ \A k \in 1..(nverts - 1) : t[k] < t[k + 1]
     \/ \A k \in 1..(nverts - 1) : t[k] > t[k + 1]}

Lines == VertexTuples(2)
Triangles == VertexTuples(3)

\* meshes of the given simplices: no two elements on the same vertices, the
\* elements listed in the order of their sets of vertices
MeshesOf(tuples) ==
  UNION {{[k \in 1..n |-> Element(m[k])] :
            m \in {m \in [1..n -> tuples] :
                     \A k \in 1..(n - 1) : SetCode(m[k]) < SetCode(m[k + 1])}} :
         n \in 1..MaxMeshElems}

\* meshes of lines or of triangles
Meshes == MeshesOf(Lines) \cup MeshesOf(Triangles)

EdgeInit ==
  /\ BasisIdle
  /\ ParIdle
  /\ TopoIdle
  /\ mesh \in Meshes
  /\ edges = <<>>
  /\ ifaces = <<>>
  /\ elemno = 0
  /\ edgeno = 0
  /\ searched = FALSE
  /\ boundary = [ok |-> FALSE, v |-> <<>>, err |-> "unset"]
  /\ interfaces = [ok |-> FALSE, v |-> <<>>, err |-> "unset"]
  /\ bboundary = [ok |-> FALSE, v |-> <<>>, err |-> "unset"]

\* one pass of the inner loop of edge_search: the edge is matched with the
\* edge stored under its key, or stored under its key
SearchEdge ==
  /\ mesh # <<>>
  /\ elemno < Len(mesh)
  /\ LET key == edgekey(elemno, edgeno)
         edge == Edge(elemno, edgeno)
     IN IF key \in DOMAIN edges
        THEN /\ ifaces' = Append(ifaces, <<edge, edges[key]>>)
             /\ edges' = [k \in DOMAIN edges \ {key} |-> edges[k]]
        ELSE /\ edges' = [k \in DOMAIN edges \cup {key} |-> IF k = key THEN edge ELSE edges[k]]
             /\ ifaces' = ifaces
  /\ IF edgeno + 1 < Len(edge2vertex(At(mesh, elemno)))
     THEN edgeno' = edgeno + 1 /\ elemno' = elemno
     ELSE edgeno' = 0 /\ elemno' = elemno + 1
  /\ UNCHANGED <<basisvars, parvars, topovars, mesh, searched, boundary, interfaces, bboundary>>

\* return tuple(edges.values()), tuple(ifaces)
SearchReturn ==
  /\ mesh # <<>>
  /\ elemno = Len(mesh)
  /\ ~searched
  /\ searched' = TRUE
  /\ UNCHANGED <<basisvars, parvars, topovars, mesh, edges, ifaces, elemno, edgeno, boundary, interfaces, bboundary>>

\* Topology.boundary: Topology( edges )
GetBoundary ==
  /\ searched
  /\ boundary.err = "unset"
  /\ boundary' = Topology({edges[k] : k \in DOMAIN edges})
  /\ UNCHANGED <<basisvars, parvars, topovars, mesh, edges, ifaces, elemno, edgeno, searched, interfaces, bboundary>>

\* Topology.interfaces: Topology of one element per pair, with the opposite
GetInterfaces ==
  /\ searched
  /\ interfaces.err = "unset"
  /\ interfaces' =
       Topology({[ifaces[k][1] EXCEPT !.opposite = <<ifaces[k][2].ielem, ifaces[k][2].iedge>>] :
                   k \in DOMAIN ifaces})
  /\ UNCHANGED <<basisvars, parvars, topovars, mesh, edges, ifaces, elemno, edgeno, searched, boundary, bboundary>>

\* the vertices of an element of the boundary: those of its parent that the
\* parent's table edge2vertex gives to the edge
EdgeVertices(e) ==
  Compress(At(edge2vertex(At(mesh, e.ielem)), e.iedge), At(mesh, e.ielem).vertices)

\* the elements of a topology of edges as a tuple, in the order of their
\* parent and edge number
ElementTuple(elements) ==
  LET code == SortSet({MaxVerts * e.ielem + e.iedge : e \in elements})
  IN [k \in DOMAIN code |-> CHOOSE e \in elements : MaxVerts * e.ielem + e.iedge = code[k]]

\* the facets of the elements of the boundary, in the order of the two loops
\* of edge_search: a line has two facets, a point has none
BoundaryFacets(elems) ==
  Concat([k \in DOMAIN elems |->
            IF elems[k].ndims = 0 THEN <<>>
            ELSE [iedge \in 1..Len(EdgeVertices(elems[k])) |->
                    [ielem |-> k - 1, iedge |-> iedge - 1, ndims |-> elems[k].ndims - 1,
                     opposite |-> <<>>,
                     key |-> sorted(Compress([v \in 1..Len(EdgeVertices(elems[k])) |-> v # iedge],
                                             EdgeVertices(elems[k])))]]])

\* the dict edges of edge_search after the facets: a facet is popped with the
\* facet stored under its key, or stored under its key
RECURSIVE edge_search(_, _)
edge_search(facets, stored) ==
  IF facets = <<>> THEN stored
  ELSE LET f == Head(facets)
       IN IF \E g \in stored : g.key = f.key
          THEN edge_search(Tail(facets), {g \in stored : g.key # f.key})
          ELSE edge_search(Tail(facets), stored \cup {f})

\* boundary.boundary: Topology.boundary of the topology that boundary returned
GetBoundaryBoundary ==
  /\ boundary.ok
  /\ bboundary.err = "unset"
  /\ bboundary' = Topology(edge_search(BoundaryFacets(ElementTuple(boundary.v.elements)), {}))
  /\ UNCHANGED <<basisvars, parvars, topovars, mesh, edges, ifaces, elemno, edgeno, searched,
                 boundary, interfaces>>

EdgeNext ==
  \/ SearchEdge
  \/ SearchReturn
  \/ GetBoundary
  \/ GetInterfaces
  \/ GetBoundaryBoundary

SpecEdge == EdgeInit /\ [][EdgeNext]_vars

(***************************************************************************)
(* Properties of boundary and interfaces.                                  *)
(***************************************************************************)

\* the facets (element, edge) of the mesh, and those of one key
Facets == {f \in (0..(Len(mesh) - 1)) \X (0..MaxVerts) : f[2] < Len(At(mesh, f[1]).vertices)}
Occurrences(key) == {f \in Facets : edgekey(f[1], f[2]) = key}
Keys == {edgekey(f[1], f[2]) : f \in Facets}

\* the elements of a topology that lie on the facets of one key
OnKey(topo, key) == {e \in topo.elements : edgekey(e.ielem, e.iedge) = key}

\* C10: when every facet key occurs at most twice, boundary is a topology
\* with exactly one element for every key that occurs once and no other
\* element, and interfaces is a topology with exactly one element for every
\* key that occurs twice, pairing its two facets, and no other element; no
\* key has an element in both.
C10_BoundaryOnceInterfacesTwice ==
  (mesh # <<>> /\ \A key \in Keys : Cardinality(Occurrences(key)) <= 2) =>
    /\ boundary.err # "unset" =>
         /\ boundary.ok
         /\ \A key \in Keys :
              Cardinality(OnKey(boundary.v, key)) = IF Cardinality(Occurrences(key)) = 1 THEN 1 ELSE 0
    /\ interfaces.err # "unset" =>
         /\ interfaces.ok
         /\ \A key \in Keys :
              /\ Cardinality(OnKey(interfaces.v, key)) = IF Cardinality(Occurrences(key)) = 2 THEN 1 ELSE 0
              /\ \A e \in OnKey(interfaces.v, key) :
                   {<<e.ielem, e.iedge>>, e.opposite} = Occurrences(key)

(***************************************************************************)
(* Properties of the argument checks.                                      *)
(***************************************************************************)
\* an index into range(n): a scalar outside [-n, n), an integer array that is not
\* one-dimensional or has an entry outside [0, n), a boolean array whose shape
\* is not (n,)
OutOfBounds(a, n) ==
  \/ a.t = "int" /\ (a.n < -n \/ a.n >= n)
  \/ a.t = "intarray" /\ (a.ndim # 1 \/ \E k \in DOMAIN a.v : a.v[k] < 0 \/ a.v[k] >= n)
  \/ a.t = "boolarray" /\ (a.ndim # 1 \/ Len(a.m) # n)

\* C15: for every Basis variant, get_dofs with a scalar outside [-nelems, nelems),
\* an integer array with an entry below 0 or not below nelems, an integer array
\* that is not one-dimensional or a boolean array whose shape is not (nelems,)
\* raises IndexError and returns no result.
C15_GetDofsRaisesIndexError ==
  (op = "get_dofs" /\ OutOfBounds(arg, basis.nelems)) => res = Err("IndexError")

\* a pruned basis is asked for the dofs of an array that holds -1, and a masked
\* basis for the dofs of a boolean array that is one entry too long
C15_Witness ==
  /\ op = "get_dofs"
  /\ res = Err("IndexError")
  /\ \/ basis.kind = "pruned" /\ basis.nelems >= 2 /\ arg = IntArray(1, <<0, -1>>)
     \/ basis.kind = "masked" /\ arg.t = "boolarray" /\ arg.ndim = 1
          /\ Len(arg.m) = basis.nelems + 1

\* C16: for every Basis variant, get_support with a scalar outside [-ndofs, ndofs),
\* an integer array with an entry below 0 or not below ndofs, an integer array
\* that is not one-dimensional or a boolean array whose shape is not (ndofs,)
\* raises IndexError and returns no result.
C16_GetSupportRaisesIndexError ==
  (op = "get_support" /\ OutOfBounds(arg, basis.ndofs)) => res = Err("IndexError")

\* a masked basis that dropped a dof is asked for the support of the parent's
\* last dof, which its own range does not hold
C16_Witness ==
  /\ op = "get_support"
  /\ res = Err("IndexError")
  /\ basis.kind = "masked"
  /\ basis.ndofs >= 1
  /\ basis.ndofs < basis.parent.ndofs
  /\ arg = IntArray(1, <<0, basis.ndofs>>)

\* C22: for every Basis variant and every element index that get_dofs accepts,
\* negative indices included, get_ndofs returns the length of get_dofs.
C22_NdofsIsLenDofs ==
  op = "get_ndofs" =>
    \A d \in {get_dofs(basis, arg)} : d.ok => res = Ok(Len(d.v))

\* C17: constructing a MaskedBasis raises ValueError and leaves no masked basis
\* when the index array is not one-dimensional, not strictly increasing or
\* holds an index outside [0, ndofs of the parent); the index array of a
\* MaskedBasis is strictly increasing and in the range of the parent's dofs.
C17_InvalidIndicesRejected ==
  /\ op = "MaskedBasis" =>
       \A parent \in {IF res.ok THEN basis.parent ELSE basis} :
         /\ res.ok => basis.kind = "masked" /\ basis.indices = arg.v
         /\ ~ res.ok => basis.kind # "masked"
         /\ (\/ arg.ndim # 1
             \/ ~ IsStrictlyIncreasing(arg.v)
             \/ \E k \in DOMAIN arg.v : arg.v[k] < 0 \/ arg.v[k] >= parent.ndofs)
              => res = Err("ValueError")
  /\ basis.kind = "masked" =>
       /\ IsStrictlyIncreasing(basis.indices)
       /\ \A k \in DOMAIN basis.indices :
            basis.indices[k] >= 0 /\ basis.indices[k] < basis.parent.ndofs

\* a repeated in-range index is rejected
C17_Witness ==
  /\ op = "MaskedBasis"
  /\ res = Err("ValueError")
  /\ arg = IntArray(1, <<0, 0>>)
  /\ basis.ndofs >= 2


\* C11: when some facet key occurs more than twice in the mesh (a non-manifold
\* mesh), neither boundary nor interfaces is ever returned as a topology: once
\* requested, each of them is a failure.
C11_NonManifoldFails ==
  (mesh # <<>> /\ \E key \in Keys : Cardinality(Occurrences(key)) > 2) =>
    /\ boundary.err # "unset" => ~boundary.ok
    /\ interfaces.err # "unset" => ~interfaces.ok

\* C19: the boundary of the boundary of a topology is a topology without
\* elements: taking it succeeds and its element set is empty.
C19_BoundaryOfBoundaryEmpty ==
  bboundary.err # "unset" => bboundary.ok /\ bboundary.v.elements = {}

(***************************************************************************)
(* StructuredTopology.basis_std and HierarchicalTopology.basis of          *)
(* nutils/topology.py.  A transform is the sequence of the index of a      *)
(* base element followed by the child indices of the refinements; the      *)
(* empty sequence is None.                                                 *)
(***************************************************************************)
MaxBase == 2     \* elements of the base topology of a hierarchical topology
MaxRefine == 2   \* refinements of an element of a hierarchical topology

\* vertex_structure[j] after the loop over the dimensions of basis_std:
\* vertex_structure = vertex_structure[...,_] * nd + numbers, nd = n * p + 1
RECURSIVE vertex_structure(_, _, _)
vertex_structure(shape, degree, j) ==
  IF j = <<>> THEN 0
  ELSE LET idim == Len(j)
           nd == shape[idim] * degree[idim] + 1
       IN vertex_structure(shape, degree, SubSeq(j, 1, idim - 1)) * nd + j[idim]

\* dofcount that counts degree * n functions along a dimension
RECURSIVE dofcount_open(_, _)
dofcount_open(shape, degree) ==
  IF shape = <<>> THEN 1
  ELSE dofcount_open(Tail(shape), Tail(degree)) * (Head(shape) * Head(degree))

\* dofcount after the loop over the dimensions
RECURSIVE dofcount(_, _)
dofcount(shape, degree) ==
  IF shape = <<>> THEN 1
  ELSE dofcount(Tail(shape), Tail(degree)) * (Head(shape) * Head(degree) + 1)

\* StructuredTopology.basis_std of a grid that is not periodic, without
\* removedofs and without None in the structure: dofmap[ielem], here
\* std_dofs, is vertex_structure[S].ravel() with S the slices p*i .. p*i+p of
\* the element
std_dofs(shape, degree, ielem) ==
  LET local == [d \in DOMAIN shape |-> degree[d] + 1]
      i == Unravel(shape, ielem)
  IN [m \in 1..Product(local) |->
        LET a == Unravel(local, m - 1)
        IN vertex_structure(shape, degree,
                            [d \in DOMAIN shape |-> degree[d] * i[d] + a[d]])]

basis_std(shape, degree) ==
  [ndofs |-> dofcount(shape, degree),
   dofmap |-> [k \in 1..Product(shape) |-> std_dofs(shape, degree, k - 1)],
   ndims |-> Len(shape)]

\* trans[:-1] and transform.sliceto(-1)
sliceto(trans) == SubSeq(trans, 1, Len(trans) - 1)

\* transform.lookup: the longest head of trans that is a key of edict, or None
RECURSIVE lookup(_, _)
lookup(trans, edict) ==
  IF trans = <<>> THEN <<>>
  ELSE IF trans \in edict THEN trans
  ELSE lookup(sliceto(trans), edict)

\* the transform of element ielem of level l of a one-dimensional base
\* topology: StructuredTopology.refined puts the children of element i at 2i
\* and 2i+1
RECURSIVE ElemTrans(_, _)
ElemTrans(l, ielem) ==
  IF l = 0 THEN <<ielem>>
  ELSE Append(ElemTrans(l - 1, ielem \div 2), ielem % 2)

\* the position in its level of the element of a transform: topo.edict
RECURSIVE ElemIndex(_)
ElemIndex(trans) ==
  IF Len(trans) = 1 THEN trans[1]
  ELSE 2 * ElemIndex(sliceto(trans)) + trans[Len(trans)]

\* HierarchicalTopology.levels: one level more than the deepest element
NLevels == IF hier.elements = {} THEN 1
           ELSE (CHOOSE n \in 1..(MaxRefine + 2) :
                   /\ \E t \in hier.elements : Len(t) = n
                   /\ \A t \in hier.elements : Len(t) <= n)

\* the elements of level l
LevelElems(l) == 0..(hier.nbase * 2 ^ l - 1)

\* as finer, for the children of an element only
finer_childonly(mytrans, trans) == mytrans # <<>> /\ mytrans = sliceto(trans)

\* elif mytrans: trans is finer than domain
finer(mytrans, trans) == mytrans # <<>> /\ mytrans # trans

\* the hierarchical topologies of one base element of a given depth: the
\* element itself, or refinements of its two children
RECURSIVE Refinements(_, _)
Refinements(trans, depth) ==
  {{trans}} \cup
  (IF depth = 0 THEN {}
   ELSE {a \cup b : a \in Refinements(Append(trans, 0), depth - 1),
                    b \in Refinements(Append(trans, 1), depth - 1)})

\* Topology.refined_by, repeated: every base element refined on its own, base
\* element b at most MaxRefine - b times
RECURSIVE Refined(_)
Refined(nbase) ==
  IF nbase = 0 THEN {{}}
  ELSE {a \cup b : a \in Refined(nbase - 1),
                    b \in Refinements(<<nbase - 1>>,
                                      IF MaxRefine >= nbase - 1 THEN MaxRefine - (nbase - 1) ELSE 0)}

\* HierarchicalTopology.trim: a topology that lost one element
Trimmed(elements) == {elements \ {e} : e \in elements} \ {{}}

Hiers ==
  UNION {{[nbase |-> nbase, degree |-> degree, elements |-> elements] :
            degree \in 1..MaxDegree,
            elements \in Refined(nbase) \cup UNION {Trimmed(r) : r \in Refined(nbase)}} :
         nbase \in 1..MaxBase}

HierInit ==
  /\ BasisIdle
  /\ ParIdle
  /\ EdgeIdle
  /\ PatchIdle
  /\ SymIdle
  /\ GridIdle
  /\ ExtIdle
  /\ hier \in Hiers
  /\ hlevel = 0
  /\ collect = <<>>
  /\ hndofs = 0
  /\ remaining = Cardinality(hier.elements)
  /\ keeps = <<>>
  /\ hbasis = [ok |-> FALSE, v |-> <<>>, err |-> "unset"]

\* the level loop is over: the levels are exhausted, or "if not remaining: break"
LevelsDone == hlevel = NLevels \/ (hlevel > 0 /\ remaining = 0)

\* one pass of the level loop of HierarchicalTopology.basis
HierLevel ==
  /\ hier.nbase > 0
  /\ hbasis.err = "unset"
  /\ ~LevelsDone
  /\ LET funcsp == basis_std(<<hier.nbase * 2 ^ hlevel>>, <<hier.degree>>)
         trans(k) == ElemTrans(hlevel, k)
         idofs(k) == At(funcsp.dofmap, k)
         mytrans(k) == lookup(trans(k), hier.elements)
     IN \E indomain \in {{k \in LevelElems(hlevel) : mytrans(k) = trans(k)}},
           isfiner \in {{k \in LevelElems(hlevel) : finer(mytrans(k), trans(k))}} :
        \E touchtopo \in {UNION {Ran(idofs(k)) : k \in indomain}},
           unsupported \in {UNION {Ran(idofs(k)) : k \in isfiner}} :
        \E keepset \in {touchtopo \ unsupported} :
          LET myelems == LevelElems(hlevel) \ isfiner
              keep == [i \in 1..funcsp.ndofs |-> (i - 1) \in keepset]
              renumber(dof) == (hndofs - 1) + Cardinality({j \in keepset : j <= dof})
              newdofs(k) == Compress([j \in DOMAIN idofs(k) |-> idofs(k)[j] \in keepset],
                                     [j \in DOMAIN idofs(k) |-> renumber(idofs(k)[j])])
              new == {trans(k) : k \in myelems}
          IN IF hlevel > 0 /\ \E k \in myelems : sliceto(trans(k)) \notin DOMAIN collect
             THEN /\ hbasis' = Err("KeyError")
                  /\ UNCHANGED <<hlevel, collect, hndofs, remaining, keeps>>
             ELSE /\ collect' =
                       [t \in DOMAIN collect \cup new |->
                          IF t \in new
                          THEN IF hlevel = 0 THEN newdofs(ElemIndex(t))
                               ELSE newdofs(ElemIndex(t)) \o collect[sliceto(t)]
                          ELSE collect[t]]
                  /\ remaining' = remaining - Cardinality(indomain)
                  /\ hndofs' = hndofs + Cardinality(keepset)
                  /\ keeps' = Append(keeps, keep)
                  /\ hlevel' = hlevel + 1
                  /\ hbasis' = hbasis
  /\ UNCHANGED <<basisvars, parvars, edgevars, patchvars, symvars, gridvars, extvars, hier>>

\* the end of HierarchicalTopology.basis: nmap of the elements of the
\* topology, the assertion check.all(), and the function that is returned
HierReturn ==
  /\ hier.nbase > 0
  /\ hbasis.err = "unset"
  /\ LevelsDone
  /\ hbasis' =
       IF \E t \in hier.elements : t \notin DOMAIN collect THEN Err("KeyError")
       ELSE IF \E d \in 0..(hndofs - 1) : \A t \in hier.elements : d \notin Ran(collect[t])
       THEN Err("AssertionError")
       ELSE Ok([nmap |-> [t \in hier.elements |-> collect[t]], ndofs |-> hndofs])
  /\ UNCHANGED <<basisvars, parvars, edgevars, patchvars, symvars, gridvars, extvars, hier, hlevel, collect, hndofs, remaining, keeps>>

HierNext ==
  \/ HierLevel
  \/ HierReturn

SpecHier == HierInit /\ [][HierNext]_vars

(***************************************************************************)
(* Properties of the hierarchical basis.                                   *)
(***************************************************************************)

\* s is a proper ancestor of t
IsAncestor(s, t) == Len(s) < Len(t) /\ SubSeq(t, 1, Len(s)) = s

\* the dofs of element ielem of level l in the basis of that level
LevelDofs(l, ielem) == Ran(std_dofs(<<hier.nbase * 2 ^ l>>, <<hier.degree>>, ielem))
LevelNdofs(l) == dofcount(<<hier.nbase * 2 ^ l>>, <<hier.degree>>)

\* the functions of level l with an element of the topology in their support
Touched(l) ==
  UNION {LevelDofs(l, k) : k \in {k \in LevelElems(l) : ElemTrans(l, k) \in hier.elements}}

\* the functions of level l without a proper descendant of an element of the
\* topology in their support
Supported(l) ==
  (0..(LevelNdofs(l) - 1)) \
    UNION {LevelDofs(l, k) :
             k \in {k \in LevelElems(l) : \E s \in hier.elements : IsAncestor(s, ElemTrans(l, k))}}

\* the functions of level l that the basis retains
Kept(l) == {i \in 0..(LevelNdofs(l) - 1) : At(At(keeps, l), i)}

\* C12: HierarchicalTopology.basis returns a basis, and in it a function of
\* level L is retained if and only if at least one level-L element of its
\* support is an element of the topology and no level-L element of its
\* support is a proper descendant of an element of the topology; the
\* retained functions are numbered level by level and are the dofs of the
\* elements that descend from their support, every other function is absent.
C12_RetainedIffTouchedAndSupported ==
  hbasis.err # "unset" =>
    /\ hbasis.ok
    /\ Len(keeps) = NLevels
    /\ \A kept \in {{li \in (0..(NLevels - 1)) \X (0..(LevelNdofs(NLevels - 1) - 1)) :
                        li[2] < LevelNdofs(li[1]) /\ At(At(keeps, li[1]), li[2])}} :
         LET number(l, i) == Cardinality({li \in kept : li[1] < l \/ (li[1] = l /\ li[2] < i)})
         IN /\ \A l \in 0..(NLevels - 1) :
                 {li[2] : li \in {li \in kept : li[1] = l}} = Touched(l) \cap Supported(l)
            /\ hbasis.v.ndofs = Cardinality(kept)
            /\ \A t \in hier.elements :
                 Ran(hbasis.v.nmap[t]) =
                   {number(li[1], li[2]) :
                      li \in {li \in kept :
                                /\ li[1] < Len(t)
                                /\ li[2] \in LevelDofs(li[1], ElemIndex(SubSeq(t, 1, li[1] + 1)))}}

\* a basis is returned that retains a function of the base level and a
\* function of the second refinement, and drops a function of each of them
C12_Witness ==
  /\ hbasis.ok
  /\ NLevels = 3
  /\ Kept(0) # {}
  /\ Kept(0) # 0..(LevelNdofs(0) - 1)
  /\ Kept(2) # {}
  /\ Touched(2) \ Kept(2) # {}

(***************************************************************************)
(* MultipatchTopology.build_boundarydata and basis_spline of               *)
(* nutils/topology.py, for two-dimensional patches of one element and      *)
(* degree 1.  A 2 x 2 array is the sequence of its entries in flat order:  *)
(* entry (i, j) is At(a, 2 * i + j).                                       *)
(***************************************************************************)
MaxPatchCells == 2   \* cells along one side of the grid the patches are taken from
MaxPatches == 4      \* patches of a multipatch topology

Sides == {0, -1}

\* a[reverse]: the axes marked in reverse run backwards
Reversed(a, reverse) ==
  [m \in 1..4 |->
     LET i == (m - 1) \div 2
         j == (m - 1) % 2
     IN At(a, 2 * (IF reverse[1] THEN 1 - i ELSE i) + (IF reverse[2] THEN 1 - j ELSE j))]

\* a.transpose(transpose) for transpose (0, 1) or (1, 0)
Transposed(a, transpose) ==
  IF transpose = <<0, 1>> THEN a
  ELSE [m \in 1..4 |-> At(a, 2 * ((m - 1) % 2) + ((m - 1) \div 2))]

\* a[reverse].transpose(transpose)[...,0].ravel()
Canonical(a, reverse, transpose) ==
  LET t == Transposed(Reversed(a, reverse), transpose)
  IN <<At(t, 0), At(t, 2)>>

\* build_boundarydata for one side of one patch: the vertices of the opposite
\* face are ignored, the lowest vertex is moved to the first position and the
\* axes are ordered by the vertices next to it
boundarydata(patch, dim, side) ==
  LET big == (CHOOSE v \in Ran(patch) : \A w \in Ran(patch) : w <= v) + 1
      opp == IF side = 0 THEN 1 ELSE 0
      verts == [m \in 1..4 |->
                  LET i == (m - 1) \div 2
                      j == (m - 1) % 2
                  IN IF (IF dim = 0 THEN i ELSE j) = opp THEN big ELSE patch[m]]
      argmin == CHOOSE m \in 1..4 :
                  /\ \A n \in 1..4 : verts[m] <= verts[n]
                  /\ \A n \in 1..(m - 1) : verts[n] # verts[m]
      reverse == <<(argmin - 1) \div 2 # 0, (argmin - 1) % 2 # 0>>
      rev == Reversed(verts, reverse)
      k == <<At(rev, 2), At(rev, 1)>>
      transpose == IF k[1] <= k[2] THEN <<0, 1>> ELSE <<1, 0>>
  IN IF Cardinality(Ran(verts)) # 3 THEN Err("NotImplementedError")
     ELSE Ok([boundaryid |-> Canonical(verts, reverse, transpose),
              dim |-> dim, side |-> side, reverse |-> reverse, transpose |-> transpose])

\* the boundaries of one patch: itertools.product( range( ndims ), [0,-1] )
Boundaries(patch) ==
  <<boundarydata(patch, 0, 0).v, boundarydata(patch, 0, -1).v,
    boundarydata(patch, 1, 0).v, boundarydata(patch, 1, -1).v>>

\* _basis_spline of a patch of one element with degree 1: nd = n + p dofs
\* along every dimension
patchdofcount == <<1 + 1, 1 + 1>>

\* the vertices of cell (i, j) of the grid of vertices, as a 2 x 2 array
CellVertices(i, j) ==
  LET v(a, b) == (MaxPatchCells + 1) * a + b
  IN <<v(i, j), v(i, j + 1), v(i + 1, j), v(i + 1, j + 1)>>

Cells == {CellVertices(i, j) : i \in 0..(MaxPatchCells - 1), j \in 0..(MaxPatchCells - 1)}

\* the patches of a multipatch topology: distinct cells of the grid, in any order
Connectivities ==
  UNION {{c \in [1..n -> Cells] : \A a \in 1..n : \A b \in 1..n : a # b => c[a] # c[b]} :
         n \in 1..MaxPatches}

PatchInit ==
  /\ BasisIdle
  /\ ParIdle
  /\ EdgeIdle
  /\ HierIdle
  /\ SymIdle
  /\ GridIdle
  /\ ExtIdle
  /\ mp \in [connectivity : Connectivities, patchcontinuous : BOOLEAN]
  /\ ipatch = 0
  /\ mpdofmap = <<>>
  /\ mpdofcount = 0
  /\ commonboundarydofs = <<>>
  /\ mpbasis = [ok |-> FALSE, v |-> <<>>, err |-> "unset"]

\* commonboundarydofs after the loop over the first n boundaries of the patch
RECURSIVE AddBoundaries(_, _, _, _)
AddBoundaries(common, boundaries, dofs, n) ==
  IF n = 0 THEN common
  ELSE LET prev == AddBoundaries(common, boundaries, dofs, n - 1)
           b == boundaries[n]
           boundarydofs == Canonical(dofs, b.reverse, b.transpose)
       IN [id \in DOMAIN prev \cup {b.boundaryid} |->
             IF id = b.boundaryid
             THEN (IF id \in DOMAIN prev THEN prev[id] ELSE <<>>) \o <<boundarydofs>>
             ELSE prev[id]]

\* one pass of the patch loop of basis_spline
PatchLoop ==
  /\ mp.connectivity # <<>>
  /\ mpbasis.err = "unset"
  /\ ipatch < Len(mp.connectivity)
  /\ LET npatchdofs == Product(patchdofcount)
         patchdofmap == Arange(0, npatchdofs)
         dofs == Arange(mpdofcount, mpdofcount + npatchdofs)
     IN /\ mpdofmap' = Append(mpdofmap, [m \in DOMAIN patchdofmap |-> patchdofmap[m] + mpdofcount])
        /\ commonboundarydofs' =
             IF mp.patchcontinuous
             THEN AddBoundaries(commonboundarydofs, Boundaries(At(mp.connectivity, ipatch)), dofs, 4)
             ELSE commonboundarydofs
        /\ mpdofcount' = mpdofcount + npatchdofs
  /\ ipatch' = ipatch + 1
  /\ UNCHANGED <<basisvars, parvars, edgevars, hiervars, symvars, gridvars, extvars, mp, mpbasis>>

\* zip( *dofs ) for the lists of boundary dofs of one boundary
Zipped(dofs) == {[p \in DOMAIN dofs |-> dofs[p][m]] : m \in 1..2}

\* the order of tuples of integers
RECURSIVE TupleLess(_, _)
TupleLess(a, b) ==
  IF a = <<>> THEN b # <<>>
  ELSE IF b = <<>> THEN FALSE
  ELSE IF Head(a) # Head(b) THEN Head(a) < Head(b)
  ELSE TupleLess(Tail(a), Tail(b))

\* dst = merge.get( dofs[0], dofs[0] ); for src in dofs[1:]: merge[src] = dst
MergeInto(merge, dofs) ==
  LET dst == IF dofs[1] \in DOMAIN merge THEN merge[dofs[1]] ELSE dofs[1]
      srcs == {dofs[m] : m \in 2..Len(dofs)}
  IN [d \in DOMAIN merge \cup srcs |-> IF d \in srcs THEN dst ELSE merge[d]]

\* the loop "for dofs in sorted( pairs )"
RECURSIVE MergeSorted(_, _)
MergeSorted(merge, pairs) ==
  IF pairs = {} THEN merge
  ELSE LET dofs == CHOOSE a \in pairs : \A b \in pairs : a = b \/ TupleLess(a, b)
       IN MergeSorted(MergeInto(merge, dofs), pairs \ {dofs})

\* the pairs of basis_spline: the tuples of the boundaries met more than once
Pairs ==
  UNION {Zipped(commonboundarydofs[id]) :
           id \in {id \in DOMAIN commonboundarydofs : Len(commonboundarydofs[id]) > 1}}

\* the end of basis_spline with patchcontinuous: merge, renumber, return
PatchMerge ==
  /\ mp.connectivity # <<>>
  /\ mpbasis.err = "unset"
  /\ ipatch = Len(mp.connectivity)
  /\ mp.patchcontinuous
  /\ \E merge \in {MergeSorted(<<>>, Pairs)} :
     \E remainder \in {{IF dof \in DOMAIN merge THEN merge[dof] ELSE dof : dof \in 0..(mpdofcount - 1)}} :
       LET renumber(dof) == Cardinality({r \in remainder : r < dof})
           final(dof) == renumber(IF dof \in DOMAIN merge THEN merge[dof] ELSE dof)
       IN /\ mpdofmap' = [k \in DOMAIN mpdofmap |-> [m \in DOMAIN mpdofmap[k] |-> final(mpdofmap[k][m])]]
          /\ mpdofcount' = Cardinality(remainder)
          /\ mpbasis' = Ok([dofmap |-> mpdofmap', ndofs |-> mpdofcount'])
  /\ UNCHANGED <<basisvars, parvars, edgevars, hiervars, symvars, gridvars, extvars, mp, ipatch, commonboundarydofs>>

\* the end of basis_spline without patchcontinuous
PatchReturn ==
  /\ mp.connectivity # <<>>
  /\ mpbasis.err = "unset"
  /\ ipatch = Len(mp.connectivity)
  /\ ~mp.patchcontinuous
  /\ mpbasis' = Ok([dofmap |-> mpdofmap, ndofs |-> mpdofcount])
  /\ UNCHANGED <<basisvars, parvars, edgevars, hiervars, symvars, gridvars, extvars, mp, ipatch, mpdofmap, mpdofcount, commonboundarydofs>>

PatchNext ==
  \/ PatchLoop
  \/ PatchMerge
  \/ PatchReturn

SpecPatch == PatchInit /\ [][PatchNext]_vars

(***************************************************************************)
(* Properties of the multipatch basis.                                     *)
(***************************************************************************)

\* the patch-local dofs, as (patch, local dof)
PatchDofs == (0..(Len(mp.connectivity) - 1)) \X (0..(Product(patchdofcount) - 1))

\* the number of a patch-local dof before the merge, and in the basis
Unmerged(pd) == Product(patchdofcount) * pd[1] + pd[2]
GlobalDof(pd) == At(At(mpbasis.v.dofmap, pd[1]), pd[2])

\* the coincident boundary-dof pairs: two dofs of one tuple of a shared boundary
Coincident == {<<t[a], t[b]>> : <<t, a, b>> \in {tab \in Pairs \X (1..MaxPatches) \X (1..MaxPatches) :
                                                  tab[2] <= Len(tab[1]) /\ tab[3] <= Len(tab[1])}}

\* the dofs connected to the dofs of S by a chain of coincident pairs
RECURSIVE Chain(_, _)
Chain(S, pairs) ==
  LET T == S \cup {pr[2] : pr \in {pr \in pairs : pr[1] \in S}}
  IN IF T = S THEN S ELSE Chain(T, pairs)

\* C13: in the basis returned with patchcontinuous two patch-local dofs have
\* the same number if and only if a chain of coincident boundary-dof pairs
\* connects them, whatever the number and the order of the patches; in the
\* basis returned without patchcontinuous no two dofs of different patches
\* have the same number.
C13_MergeIsEquivalenceClosure ==
  mpbasis.ok =>
    IF mp.patchcontinuous
    THEN \A coincident \in {Coincident} :
           \A x \in PatchDofs : \A reach \in {Chain({Unmerged(x)}, coincident)} :
             \A y \in PatchDofs :
               (GlobalDof(x) = GlobalDof(y)) <=> (Unmerged(y) \in reach)
    ELSE \A x \in PatchDofs : \A y \in PatchDofs :
           x[1] # y[1] => GlobalDof(x) # GlobalDof(y)


(***************************************************************************)
(* Topology.integrate_symm (nutils/topology.py): integration of a          *)
(* symmetric matrix integrand over a product domain.  An element of the    *)
(* topology is a neighbourhood pair: head1 = elem.transform[:-1] and       *)
(* head2 = elem.opposite[:-1] name the two elements of the pair.  The      *)
(* integrand is basis[i](x) * basis[j](y) * kernel: the pair contributes   *)
(* one block whose rows are the dofs of head1 and whose columns are the    *)
(* dofs of head2.  The value of element number id is 4 ^ id in every entry *)
(* of its block, so that the base-4 digits of an entry of the result count *)
(* how often each element was entered there.                               *)
(***************************************************************************)
MaxPairs == 3       \* elements (neighbourhood pairs) of the product-domain topology

\* the heads, in the order of tuples: <<0>> < <<0, 0>> < <<1>>
Heads == {<<0>>, <<0, 0>>, <<1>>}

\* the dofs of the basis on the element of a head
HeadDofs(head) ==
  IF head = <<0>> THEN <<0, 1>> ELSE IF head = <<0, 0>> THEN <<1>> ELSE <<1, 2>>

SymNdofs == 3

SymTopos ==
  UNION {{[k \in 1..n |-> [id |-> k - 1, head1 |-> t[k][1], head2 |-> t[k][2]]] :
            t \in [1..n -> Heads \X Heads]} : n \in 1..MaxPairs}

SymInit ==
  /\ BasisIdle
  /\ ParIdle
  /\ EdgeIdle
  /\ HierIdle
  /\ PatchIdle
  /\ GridIdle
  /\ ExtIdle
  /\ symtopo \in SymTopos
  /\ isym = 0
  /\ diagelems = <<>>
  /\ trielems = <<>>
  /\ retvals = [ok |-> FALSE, v |-> <<>>, err |-> "unset"]

\* one pass of "for elem in self": the pair is put on diagelems, on
\* trielems, or on neither
SymElem ==
  /\ symtopo # <<>>
  /\ isym < Len(symtopo)
  /\ LET elem == At(symtopo, isym)
     IN IF elem.head1 = elem.head2
        THEN diagelems' = Append(diagelems, elem) /\ trielems' = trielems
        ELSE IF TupleLess(elem.head1, elem.head2)
        THEN trielems' = Append(trielems, elem) /\ diagelems' = diagelems
        ELSE UNCHANGED <<diagelems, trielems>>
  /\ isym' = isym + 1
  /\ UNCHANGED <<basisvars, parvars, edgevars, hiervars, patchvars, gridvars, extvars, symtopo, retvals>>

\* Topology( elems, ndims )._integrate of one matrix integrand: the data and
\* the two rows of the index of the blocks of the elements, one after the
\* other; a block is raveled row by row
RECURSIVE integrate_elems(_)
integrate_elems(elems) ==
  IF elems = <<>> THEN [data |-> <<>>, index |-> <<<<>>, <<>>>>]
  ELSE LET elem == Head(elems)
           ii == HeadDofs(elem.head1)
           jj == HeadDofs(elem.head2)
           n == Len(ii) * Len(jj)
           rest == integrate_elems(Tail(elems))
       IN [data |-> [k \in 1..n |-> 4 ^ elem.id] \o rest.data,
           index |-> <<[k \in 1..n |-> ii[((k - 1) \div Len(jj)) + 1]] \o rest.index[1],
                       [k \in 1..n |-> jj[((k - 1) % Len(jj)) + 1]] \o rest.index[2]>>]

\* the index of the mirrored entries without the reversal of its two rows
symm_index_unmirrored(diagindex, triindex) ==
  <<diagindex[1] \o triindex[1] \o triindex[1], diagindex[2] \o triindex[2] \o triindex[2]>>

\* numpy.concatenate( [ diagindex, triindex, triindex[::-1] ], axis=1 )
symm_index(diagindex, triindex) ==
  <<diagindex[1] \o triindex[1] \o triindex[2], diagindex[2] \o triindex[2] \o triindex[1]>>

RECURSIVE SumSeq(_)
SumSeq(s) == IF s = <<>> THEN 0 ELSE Head(s) + SumSeq(Tail(s))

\* matrix.assemble: the entries of data are added at their indices
assemble(dat, index, shape) ==
  [i \in 1..shape[1] |-> [j \in 1..shape[2] |->
     SumSeq(SelectSeq([k \in DOMAIN dat |->
                         IF index[1][k] = i - 1 /\ index[2][k] = j - 1 THEN dat[k] ELSE 0],
                      LAMBDA x : x # 0))]]

\* the end of integrate_symm: both lists are integrated, the data of
\* trielems is taken twice, and the matrix is assembled
SymReturn ==
  /\ symtopo # <<>>
  /\ isym = Len(symtopo)
  /\ retvals.err = "unset"
  /\ \E diag \in {integrate_elems(diagelems)}, tri \in {integrate_elems(trielems)} :
       retvals' = Ok(assemble(diag.data \o tri.data \o tri.data,
                              symm_index(diag.index, tri.index),
                              <<SymNdofs, SymNdofs>>))
  /\ UNCHANGED <<basisvars, parvars, edgevars, hiervars, patchvars, gridvars, extvars,
                 symtopo, isym, diagelems, trielems>>

SymNext ==
  \/ SymElem
  \/ SymReturn

SpecSymm == SymInit /\ [][SymNext]_vars

(***************************************************************************)
(* Properties of integrate_symm.                                           *)
(***************************************************************************)
\* the value element elem has at entry (i, j) of the integrand
Contribution(elem, i, j) ==
  IF i \in Ran(HeadDofs(elem.head1)) /\ j \in Ran(HeadDofs(elem.head2))
  THEN 4 ^ elem.id ELSE 0

\* C18: integrate_symm evaluates every pair with equal heads once and every
\* pair with head1 < head2 once, evaluates no pair with head1 > head2, and
\* the assembled matrix holds at (i, j) the contributions of the pairs with
\* equal heads at (i, j) and of every pair with head1 < head2 both at (i, j)
\* and at the mirrored index (j, i).
C18_OffDiagonalMirrored ==
  retvals.err # "unset" =>
    /\ retvals.ok
    /\ diagelems = SelectSeq(symtopo, LAMBDA e : e.head1 = e.head2)
    /\ trielems = SelectSeq(symtopo, LAMBDA e : e.head1 # e.head2 /\ TupleLess(e.head1, e.head2))
    /\ \A e \in Ran(symtopo) :
         (e.head1 # e.head2 /\ ~ TupleLess(e.head1, e.head2)) =>
           e \notin Ran(diagelems) \cup Ran(trielems)
    /\ \A i, j \in 0..(SymNdofs - 1) :
         retvals.v[i + 1][j + 1] =
           SumSeq([k \in DOMAIN diagelems |-> Contribution(diagelems[k], i, j)])
           + SumSeq([k \in DOMAIN trielems |->
                       Contribution(trielems[k], i, j) + Contribution(trielems[k], j, i)])

\* a topology with a pair of equal heads, a pair with head1 < head2 and the
\* pair of the opposite orientation has been integrated; the pair with
\* head1 < head2 entered its value at (0, 2) and at (2, 0), nothing else did
C18_Witness ==
  /\ retvals.ok
  /\ Len(diagelems) = 1
  /\ Len(trielems) = 1
  /\ Len(symtopo) = 3
  /\ trielems[1].head1 = <<0>>
  /\ trielems[1].head2 = <<1>>
  /\ retvals.v[1][3] = 4 ^ trielems[1].id
  /\ retvals.v[3][1] = 4 ^ trielems[1].id


(***************************************************************************)
(* The standard basis of a structured grid that is not periodic:           *)
(* StructuredTopology.basis_std (nutils/topology.py) gives the number of   *)
(* dofs and the dofs of every element, function.StructuredBasis            *)
(* (nutils/function.py) answers get_dofs and get_support for the same      *)
(* basis.                                                                  *)
(***************************************************************************)
MaxSide == 4        \* elements along one axis of the grid of the standard basis

Grids ==
  {[shape |-> sh, degree |-> p] :
     sh \in {<<n>> : n \in 1..MaxSide} \cup ((1..MaxSide) \X (1..MaxSide)),
     p \in 1..MaxDegree}

\* one axis of the standard basis of degree p on n elements
StdAxis(n, p) == [n |-> n, p |-> p, std |-> TRUE, periodic |-> FALSE]

\* the StructuredBasis of the standard basis of a grid
StdBasis(g) ==
  LET ax == [d \in DOMAIN g.shape |-> StdAxis(g.shape[d], g.degree)]
  IN StructuredBasis([d \in DOMAIN ax |-> AxisCoeffs(ax[d], 20 * (d - 1))],
                     [d \in DOMAIN ax |-> AxisStart(ax[d])],
                     [d \in DOMAIN ax |-> AxisStop(ax[d])],
                     [d \in DOMAIN ax |-> AxisDofs(ax[d])],
                     g.shape)

GridInit ==
  /\ BasisIdle
  /\ ParIdle
  /\ EdgeIdle
  /\ HierIdle
  /\ PatchIdle
  /\ SymIdle
  /\ ExtIdle
  /\ grid \in Grids
  /\ gstd = [ok |-> FALSE, v |-> <<>>, err |-> "unset"]

\* topology.basis( 'std', degree=p ) of the grid
BasisStd ==
  /\ grid.shape # <<>>
  /\ gstd.err = "unset"
  /\ gstd' = Ok(basis_std(grid.shape, [d \in DOMAIN grid.shape |-> grid.degree]))
  /\ basis' = StdBasis(grid)
  /\ UNCHANGED <<op, arg, arg2, res, parvars, edgevars, hiervars, patchvars, symvars, extvars, grid>>

\* the basis is built and then asked for the dofs of elements and the
\* supports of dofs
GridNext ==
  \/ BasisStd
  \/ gstd.ok /\ GetDofs
  \/ gstd.ok /\ GetSupport
  \/ gstd.ok /\ Return

SpecGrid == GridInit /\ [][GridNext]_vars

(***************************************************************************)
(* Properties of the standard basis.                                       *)
(***************************************************************************)
\* C20: the degree-p standard basis of a grid of n1 x ... x nd elements that
\* is not periodic has (n1*p+1) * ... * (nd*p+1) dofs and every element has
\* exactly (p+1)^d dofs; the basis of degree 1 on the grid of 4 x 4 elements
\* has 25 dofs, element 0 has 4 dofs and the support of dof 0 is element 0.
C20_StdBasisDofCounts ==
  gstd.ok =>
    \A nd \in {Product([d \in DOMAIN grid.shape |-> grid.shape[d] * grid.degree + 1])},
       nloc \in {(grid.degree + 1) ^ Len(grid.shape)} :
      /\ gstd.v.ndofs = nd
      /\ basis.ndofs = nd
      /\ \A k \in DOMAIN gstd.v.dofmap :
           Len(gstd.v.dofmap[k]) = nloc /\ Cardinality(Ran(gstd.v.dofmap[k])) = nloc
      /\ (op = "get_dofs" /\ res.ok) =>
           /\ Len(res.v) = nloc
           /\ Cardinality(Ran(res.v)) = nloc
           /\ Ran(res.v) = Ran(gstd.v.dofmap[normdim(basis.nelems, arg.n).v + 1])
      /\ (grid.shape = <<4, 4>> /\ grid.degree = 1) =>
           /\ nd = 25
           /\ (op = "get_dofs" /\ arg = IntArg(0)) => res.ok /\ Len(res.v) = 4
           /\ (op = "get_support" /\ arg = IntArg(0)) => res = Ok(<<0>>)

\* the support of dof 0 of the basis of degree 1 on 4 x 4 elements was asked
C20_Witness ==
  /\ gstd.ok
  /\ grid = [shape |-> <<4, 4>>, degree |-> 1]
  /\ gstd.v.ndofs = 25
  /\ op = "get_support"
  /\ arg = IntArg(0)
  /\ res = Ok(<<0>>)

(***************************************************************************)
(* mesh.parsegmsh: the parser of Gmsh msh in msh2 or msh4 text format.    *)
(* The file is its MeshFormat section, <<>> when the section is missing    *)
(* and <<version, filetype>> otherwise with the version a sequence of      *)
(* characters, and its Elements section: per element the element type, the *)
(* dimension of the entity block that holds it (msh4 only) and the number  *)
(* of node ids on its line.  The sections Nodes and Entities are present   *)
(* and well formed, and there are no physical names and no periodicity.    *)
(***************************************************************************)
MaxGmshElems == 2

Versions == {<<"2", ".", "2">>, <<"4", ".", "1">>, <<"2", "2">>, <<"4", "1">>, <<"1", ".", "0">>}

FileTypes == {"0", "1"}

ElementTypes == {"1", "2", "24"}

NodeCounts == {2, 3, 15}

GmshElements ==
  [etype : ElementTypes, ndims : 1..2, nnodes : NodeCounts]

GmshFiles ==
  [format : {<<>>} \cup {<<v, t>> : v \in Versions, t \in FileTypes},
   elements : UNION {[1..n -> GmshElements] : n \in 0..MaxGmshElems}]

\* str.startswith
startswith(s, prefix) ==
  /\ Len(s) >= Len(prefix)
  /\ SubSeq(s, 1, Len(prefix)) = prefix

\* the table etype2nd of _parsegmsh2
etype2nd ==
  ("15" :> 0) @@ ("1" :> 1) @@ ("2" :> 2) @@ ("4" :> 3) @@ ("8" :> 1) @@ ("9" :> 2)
  @@ ("11" :> 3) @@ ("26" :> 1) @@ ("21" :> 2) @@ ("23" :> 2) @@ ("27" :> 1)

\* the table of parsegmsh from (ndims, nodes per element) to the degree
gmshdegree ==
  (<<2, 6>> :> 2) @@ (<<2, 10>> :> 3) @@ (<<2, 15>> :> 4) @@ (<<3, 10>> :> 2)

\* l = nodes.setdefault(nd, []); l.append(inodes): a row is kept as its length
AddRow(nodes, nd, n) ==
  IF nd \in DOMAIN nodes THEN [nodes EXCEPT ![nd] = Append(@, n)]
  ELSE nodes @@ (nd :> <<n>>)

\* the Elements loop of _parsegmsh2 from element i on: nd = etype2nd[e]
RECURSIVE parsegmsh2_elements(_, _, _)
parsegmsh2_elements(elements, i, nodes) ==
  IF i > Len(elements) THEN Ok(nodes)
  ELSE IF elements[i].etype \notin DOMAIN etype2nd THEN Err("KeyError")
  ELSE parsegmsh2_elements(elements, i + 1,
         AddRow(nodes, etype2nd[elements[i].etype], elements[i].nnodes))

\* the Elements loop of _parsegmsh4 from block i on: the dimension is the one
\* of the block header, the element type of the header is read and not used
RECURSIVE parsegmsh4_elements(_, _, _)
parsegmsh4_elements(elements, i, nodes) ==
  IF i > Len(elements) THEN Ok(nodes)
  ELSE parsegmsh4_elements(elements, i + 1,
         AddRow(nodes, elements[i].ndims, elements[i].nnodes))

\* the rows of every dimension have one length, so that they form a 2d array
Rectangular(nodes) ==
  \A nd \in DOMAIN nodes : \A i, j \in DOMAIN nodes[nd] : nodes[nd][i] = nodes[nd][j]

\* nodes = {nd: nodemap(e) for nd, e in nodes.items()}
gmsh_process(parsed) ==
  IF ~ parsed.ok THEN parsed
  ELSE IF ~ Rectangular(parsed.v) THEN Err("ValueError")
  ELSE parsed

_parsegmsh2(sections) ==
  gmsh_process(parsegmsh2_elements(sections.elements, 1, <<>>))

_parsegmsh4(sections) ==
  gmsh_process(parsegmsh4_elements(sections.elements, 1, <<>>))

\* the part of parsegmsh after the sections are parsed
gmsh_finish(nodes) ==
  IF DOMAIN nodes = {} THEN Err("ValueError")
  ELSE LET ndims == CHOOSE nd \in DOMAIN nodes : \A k \in DOMAIN nodes : k <= nd
           cnodes == nodes[ndims]
           width == cnodes[1]
       IN IF width <= ndims + 1
          THEN Ok([ndims |-> ndims, degree |-> 1, nelems |-> Len(cnodes)])
          ELSE IF <<ndims, width>> \notin DOMAIN gmshdegree THEN Err("KeyError")
          ELSE Ok([ndims |-> ndims, degree |-> gmshdegree[<<ndims, width>>],
                   nelems |-> Len(cnodes)])

parsegmsh(msh) ==
  IF msh.format = <<>> THEN Err("ValueError")
  ELSE LET version == msh.format[1]
           filetype == msh.format[2]
       IN IF filetype # "0" THEN Err("ValueError")
          ELSE LET parsed == IF startswith(version, <<"2", ".">>) THEN _parsegmsh2(msh)
                             ELSE IF startswith(version, <<"4", ".">>) THEN _parsegmsh4(msh)
                             ELSE Err("ValueError")
               IN IF ~ parsed.ok THEN parsed ELSE gmsh_finish(parsed.v)

GmshInit ==
  /\ BasisIdle
  /\ ParIdle
  /\ EdgeIdle
  /\ HierIdle
  /\ PatchIdle
  /\ SymIdle
  /\ GridIdle
  /\ NsIdle
  /\ AltIdle
  /\ LogIdle
  /\ CtxIdle
  /\ mshdata \in GmshFiles
  /\ gmshres = [ok |-> FALSE, v |-> <<>>, err |-> "unset"]

\* mesh.parsegmsh(mshdata)
ParseGmsh ==
  /\ gmshres.err = "unset"
  /\ gmshres' = parsegmsh(mshdata)
  /\ UNCHANGED <<basisvars, parvars, edgevars, hiervars, patchvars, symvars, gridvars, nsvars, altvars, logvars, ctxvars, mshdata>>

GmshNext ==
  \/ ParseGmsh

SpecGmsh == GmshInit /\ [][GmshNext]_vars

\* the conditions under which a file is to be rejected
UnknownElementType(msh) ==
  \E i \in DOMAIN msh.elements : msh.elements[i].etype \notin DOMAIN etype2nd

SupportedVersion(msh) ==
  \/ startswith(msh.format[1], <<"2", ".">>)
  \/ startswith(msh.format[1], <<"4", ".">>)

\* C21: parsegmsh fails with an error, and returns no mesh msh, whenever the
\* input has no MeshFormat section, declares a binary file type, declares a
\* version that is neither 2.x nor 4.x, or contains an element of an unknown
\* element type.
C21_InvalidFileRejected ==
  gmshres.err # "unset" =>
    ((\/ mshdata.format = <<>>
      \/ mshdata.format[2] # "0"
      \/ ~ SupportedVersion(mshdata)
      \/ UnknownElementType(mshdata)) => ~ gmshres.ok)

(***************************************************************************)
(* function.Namespace: the constructor with its fixed index lengths and    *)
(* copy_.  A keyword argument length_<indices>=value is the pair of the    *)
(* characters after the prefix length_ and the value; dicts keep their     *)
(* insertion order and are sequences of <<name, value>> pairs.  Attributes  *)
(* are arrays, named by a string and held as a number.                     *)
(***************************************************************************)
MaxKwargs == 2

IndexNames == {<<"i">>, <<"j">>, <<"i", "j">>, <<"j", "k">>}

IndexLengths == 2..3

AttributeNames == {"a", "b"}

\* the keyword arguments of a call: no two have the same name
NsKwargs ==
  {kw \in UNION {[1..n -> IndexNames \X IndexLengths] : n \in 0..MaxKwargs} :
     \A i, j \in DOMAIN kw : i # j => kw[i][1] # kw[j][1]}

DictKeys(d) == {d[i][1] : i \in DOMAIN d}

\* d[name] of a dict
Lookup(d, name) == d[CHOOSE i \in DOMAIN d : d[i][1] = name][2]

\* d[name] = value
SetItem(d, name, value) ==
  IF name \in DictKeys(d)
  THEN [i \in DOMAIN d |-> IF d[i][1] = name THEN <<name, value>> ELSE d[i]]
  ELSE Append(d, <<name, value>>)

\* the loop over the indices of one keyword argument, from character c on
RECURSIVE ns_indices(_, _, _, _)
ns_indices(fixed_lengths, name, value, c) ==
  IF c > Len(name) THEN Ok(fixed_lengths)
  ELSE IF name[c] \in DictKeys(fixed_lengths) THEN Err("ValueError")
  ELSE ns_indices(Append(fixed_lengths, <<name[c], value>>), name, value, c + 1)

\* the loop over the keyword arguments, from argument k on
RECURSIVE ns_kwargs(_, _, _)
ns_kwargs(fixed_lengths, kwargs, k) ==
  IF k > Len(kwargs) THEN Ok(fixed_lengths)
  ELSE LET r == ns_indices(fixed_lengths, kwargs[k][1], kwargs[k][2], 1)
       IN IF ~ r.ok THEN r ELSE ns_kwargs(r.v, kwargs, k + 1)

\* Namespace(fallback_length=..., **kwargs)
Namespace_init(fallback_length, kwargs) ==
  LET r == ns_kwargs(<<>>, kwargs, 1)
  IN IF ~ r.ok THEN r
     ELSE Ok([_fixed_lengths |-> r.v, _fallback_length |-> fallback_length,
              _attributes |-> <<>>])

\* {'length_{i}': l for i, l in self._fixed_lengths.items()}: the name is the
\* same string for every item, so that the dict holds the last length only
copy_kwargs(fixed_lengths) ==
  IF fixed_lengths = <<>> THEN <<>>
  ELSE << <<(<<"{", "i", "}">>), fixed_lengths[Len(fixed_lengths)][2]>> >>

\* the loop setattr(ns, k, v) of copy_, from attribute k on
RECURSIVE copy_attributes(_, _, _)
copy_attributes(ns, attributes, k) ==
  IF k > Len(attributes) THEN ns
  ELSE copy_attributes(
         [ns EXCEPT !._attributes = SetItem(@, attributes[k][1], attributes[k][2])],
         attributes, k + 1)

\* Namespace.copy_()
copy_(self) ==
  LET ns == Namespace_init(self._fallback_length, copy_kwargs(self._fixed_lengths))
  IN IF ~ ns.ok THEN ns ELSE Ok(copy_attributes(ns.v, self._attributes, 1))

NsInit ==
  /\ BasisIdle
  /\ ParIdle
  /\ EdgeIdle
  /\ HierIdle
  /\ PatchIdle
  /\ SymIdle
  /\ GridIdle
  /\ GmshIdle
  /\ AltIdle
  /\ LogIdle
  /\ CtxIdle
  /\ \E fallback_length \in {None} \cup IndexLengths, kwargs \in NsKwargs :
       nsorig = Namespace_init(fallback_length, kwargs)
  /\ nscopy = [ok |-> FALSE, v |-> <<>>, err |-> "unset"]

\* ns.<name> = value, with value an array
NsSetattr ==
  /\ nsorig.ok
  /\ nscopy.err = "unset"
  /\ \E attr \in AttributeNames, value \in 1..2 :
       nsorig' = [nsorig EXCEPT !.v._attributes = SetItem(@, attr, value)]
  /\ UNCHANGED <<basisvars, parvars, edgevars, hiervars, patchvars, symvars, gridvars,
                 gmshvars, altvars, logvars, ctxvars, nscopy>>

\* ns.copy_()
NsCopy ==
  /\ nsorig.ok
  /\ nscopy.err = "unset"
  /\ nscopy' = copy_(nsorig.v)
  /\ UNCHANGED <<basisvars, parvars, edgevars, hiervars, patchvars, symvars, gridvars,
                 gmshvars, altvars, logvars, ctxvars, nsorig>>

NsNext ==
  \/ NsSetattr
  \/ NsCopy

SpecNamespace == NsInit /\ [][NsNext]_vars

\* a dict as a map, without its insertion order
AsMap(d) == [name \in DictKeys(d) |-> Lookup(d, name)]

\* C23: copy_ returns a namespace with the same fallback length, exactly the
\* same map from index to fixed length, and the same attributes, for every
\* set of fixed lengths.
C23_CopyKeepsLengths ==
  nscopy.err # "unset" =>
    /\ nscopy.ok
    /\ nscopy.v._fallback_length = nsorig.v._fallback_length
    /\ AsMap(nscopy.v._fixed_lengths) = AsMap(nsorig.v._fixed_lengths)
    /\ AsMap(nscopy.v._attributes) = AsMap(nsorig.v._attributes)

(***************************************************************************)
(* Properties of Fork, as entered by _pariter in the unforked process.     *)
(***************************************************************************)

\* the processes that exist: the original and those forked so far
Existing == {p \in Procs : pc[p] # "absent"}

\* C29: Fork(nprocs) entered in an unforked process yields exactly nprocs
\* processes with the distinct procids 0 .. nprocs-1, the original process
\* holding 0; after the exit only the original process goes on, all others
\* have exited, and its procid is None again, which is the condition under
\* which a later Fork forks.
C29_ForkYieldsProcs ==
  cfg.nprocs > 1 =>
    /\ \A p \in Existing : Running(p) => procid[p] = p /\ p < cfg.nprocs
    /\ (Running(0) /\ \A p \in Procs : pc[p] # "enter") => Existing = 0..(cfg.nprocs - 1)
    /\ pc[0] \in Left =>
         /\ procid[0] = None
         /\ Existing = 0..(cfg.nprocs - 1)
         /\ \A p \in Existing \ {0} : pc[p] = "exited"

\* three processes were forked, all are inside the block with their procids,
\* and later the original process is past the block with procid None
C29_Witness ==
  /\ cfg.nprocs = 3
  /\ pc[0] = "raised"
  /\ procid = [p \in Procs |-> IF p = 0 THEN None ELSE p]
  /\ \A p \in Procs \ {0} : pc[p] = "exited"

(***************************************************************************)
(* Termination of pariter.  The iterable is finite and the loop body ends  *)
(* without an error; every process is an operating system process, which   *)
(* the scheduler lets take its next step as long as that step is possible. *)
(***************************************************************************)

\* _integrate of a scalar integrand with nprocs >= 2: the loop does not
\* depend on the values that the body writes
PariterInit ==
  /\ IntegrateInit
  /\ cfg.nprocs >= 2
  /\ cfg.block2func = <<0>>
  /\ cfg.sizes = Scalar(cfg.nelems)

\* a step of process p with a loop body that does not raise
FairStep(p) ==
  \/ ForkChild(p)
  \/ ForkLast(p)
  \/ NextItem(p)
  \/ EndOfItems(p)
  \/ Body(p)
  \/ Acquire(p)
  \/ ReadCounter(p)
  \/ WriteCounter(p)
  \/ ExitWorker(p)
  \/ ExitOriginal(p)

\* a step of the original process outside the with-block of _pariter
OuterStep ==
  \/ Pass1Elem
  \/ Allocate
  \/ PariterFork
  \/ ReturnData

PariterNext ==
  \/ OuterStep
  \/ \E p \in Procs : FairStep(p)

Fairness ==
  /\ WF_vars(OuterStep)
  /\ \A p \in Procs : WF_vars(FairStep(p))

SpecPariter == PariterInit /\ [][PariterNext]_vars /\ Fairness

\* every worker has exited and the original process has returned
Terminated ==
  /\ pc[0] = "returned"
  /\ \A p \in 1..(cfg.nprocs - 1) : pc[p] = "exited"

\* C26: pariter with nprocs >= 2 always terminates: every worker (procid >= 1)
\* eventually exits and the original process eventually leaves the loop and
\* returns, for good; so no process waits for ever for the lock or for its
\* child, as a process that waits has neither exited nor returned.
C26_PariterTerminates == <>[]Terminated

\* the original process has returned after three processes shared three
\* items, both workers have exited and the shared counter is past the items
C26_Witness ==
  /\ pc[0] = "returned"
  /\ cfg.nprocs = 3
  /\ cfg.nelems = 3
  /\ \A p \in 1..2 : pc[p] = "exited"
  /\ shared_iter > cfg.nelems

(***************************************************************************)
(* pariter in a process that is already forked: the global procid of the   *)
(* process is not None when _pariter enters Fork.  The process at hand is  *)
(* process 0 of the model; no other process exists unless it forks one.    *)
(***************************************************************************)

\* _integrate of a scalar integrand with nprocs >= 2, entered by a process
\* whose procid is 0 .. MaxProcs-1
NestedInit ==
  /\ BasisIdle
  /\ EdgeIdle
  /\ TopoIdle
  /\ cfg \in {[nelems |-> ne, nprocs |-> np, nfuncs |-> 1, block2func |-> <<0>>, sizes |-> Scalar(ne)] :
                ne \in 0..MaxItems, np \in 2..MaxProcs}
  /\ offsets = [b \in 1..Len(cfg.block2func) |-> [k \in 1..(cfg.nelems + 1) |-> 0]]
  /\ nvals = [f \in 1..cfg.nfuncs |-> 0]
  /\ data = <<>>
  /\ wlog = <<>>
  /\ pc = [p \in Procs |-> IF p = 0 THEN "pass1" ELSE "absent"]
  /\ \E k \in 0..(MaxProcs - 1) : procid = [p \in Procs |-> IF p = 0 THEN k ELSE None]
  /\ child_pid = [p \in Procs |-> None]
  /\ iiter = [p \in Procs |-> 0]
  /\ enum_n = [p \in Procs |-> -1]
  /\ shared_iter = 0
  /\ lock = None
  /\ exc = [p \in Procs |-> FALSE]
  /\ status = [p \in Procs |-> -1]
  /\ handled = [p \in Procs |-> <<>>]
  /\ assertfail = FALSE
  /\ ielem1 = 0

\* parallel._pariter with Fork.__enter__ in a forked process: the fork is
\* ignored, child_pid is None, and iiter = procid takes the global procid
PariterIgnored ==
  /\ pc[0] = "pariter"
  /\ cfg.nprocs > 1
  /\ procid[0] # None
  /\ shared_iter' = CounterStart
  /\ lock' = None
  /\ child_pid' = [child_pid EXCEPT ![0] = None]
  /\ iiter' = [iiter EXCEPT ![0] = procid[0]]
  /\ pc' = [pc EXCEPT ![0] = "loop"]
  /\ UNCHANGED <<basisvars, edgevars, topovars, cfg, offsets, nvals, data, wlog, procid, enum_n,
                 exc, status, handled, assertfail, ielem1>>

\* Fork.__exit__ with child_pid None: return at once; an exception that is
\* leaving the block goes on
ExitIgnored(p) ==
  /\ pc[p] = "exit"
  /\ child_pid[p] = None
  /\ pc' = [pc EXCEPT ![p] = IF exc[p] THEN "raised" ELSE "done"]
  /\ UNCHANGED <<basisvars, edgevars, topovars, cfg, offsets, nvals, data, wlog, procid, child_pid, iiter, enum_n,
                 shared_iter, lock, exc, status, handled, assertfail, ielem1>>

NestedNext ==
  \/ Pass1Elem
  \/ Allocate
  \/ PariterIgnored
  \/ NextItem(0)
  \/ EndOfItems(0)
  \/ Body(0)
  \/ Acquire(0)
  \/ ReadCounter(0)
  \/ WriteCounter(0)
  \/ ExitIgnored(0)
  \/ ReturnData

SpecNested == NestedInit /\ [][NestedNext]_vars

\* C27: when pariter with nprocs >= 2 is started in an already forked
\* process, no process is forked and the loop body is executed in that
\* process for every item of the iterable exactly once, in order, as in
\* serial execution.
C27_NestedRunsSerially ==
  /\ Existing = {0}
  /\ pc[0] \in Left =>
       /\ handled[0] = [k \in 1..cfg.nelems |-> k - 1]
       /\ pc[0] # "raised"
       /\ ~ assertfail

(***************************************************************************)
(* parallel.AlternativeFork: one master that forks nprocs-1 children.  The *)
(* with-block is entered by process 0, whose global procid is None (not    *)
(* forked) or a number (already forked); the block body ends with or       *)
(* without an exception.                                                   *)
(***************************************************************************)
\* self.children: None, or the list of the pids of the children
NoChildren == [isnone |-> TRUE, pids |-> {}]

Children(pids) == [isnone |-> FALSE, pids |-> pids]

AltInit ==
  /\ BasisIdle
  /\ EdgeIdle
  /\ HierIdle
  /\ PatchIdle
  /\ SymIdle
  /\ GridIdle
  /\ GmshIdle
  /\ NsIdle
  /\ LogIdle
  /\ CtxIdle
  /\ cfg = [nelems |-> 0, nprocs |-> 1, nfuncs |-> 0, block2func |-> <<>>, sizes |-> <<>>]
  /\ offsets = <<>>
  /\ nvals = <<>>
  /\ data = <<>>
  /\ wlog = <<>>
  /\ pc = [p \in Procs |-> "absent"]
  /\ \E k \in {None} \cup Procs : procid = [p \in Procs |-> IF p = 0 THEN k ELSE None]
  /\ child_pid = [p \in Procs |-> None]
  /\ iiter = [p \in Procs |-> 0]
  /\ enum_n = [p \in Procs |-> -1]
  /\ shared_iter = 0
  /\ lock = None
  /\ exc = [p \in Procs |-> FALSE]
  /\ status = [p \in Procs |-> -1]
  /\ handled = [p \in Procs |-> <<>>]
  /\ assertfail = FALSE
  /\ ielem1 = 0
  /\ \E n \in 1..MaxProcs : altfork = [p \in Procs |-> [nprocs |-> n, children |-> NoChildren]]
  /\ altpc = [p \in Procs |-> IF p = 0 THEN "out" ELSE "absent"]
  /\ entered_procid = None
  /\ waited = {}

\* AlternativeFork.__enter__: ignored in a forked process; otherwise the
\* master forks the children 1 .. nprocs-1, keeps their pids and takes procid 0
AltEnter ==
  /\ altpc[0] = "out"
  /\ entered_procid' = procid[0]
  /\ IF procid[0] # None
     THEN /\ altpc' = [altpc EXCEPT ![0] = "in"]
          /\ UNCHANGED <<altfork, procid>>
     ELSE LET forked == 1..(altfork[0].nprocs - 1)
          IN /\ altpc' = [p \in Procs |-> IF p \in forked \cup {0} THEN "in" ELSE altpc[p]]
             /\ procid' = [p \in Procs |-> IF p \in forked \cup {0} THEN p ELSE procid[p]]
             /\ altfork' = [altfork EXCEPT ![0].children = Children(forked)]
  /\ UNCHANGED <<basisvars, edgevars, hiervars, patchvars, symvars, gridvars, gmshvars, nsvars, logvars, ctxvars,
                 cfg, offsets, nvals, data, wlog, pc, child_pid, iiter, enum_n,
                 shared_iter, lock, exc, status, handled, assertfail, ielem1, waited>>

\* the body of the with-block ends in process p and __exit__ is called:
\* status = 0, or 1 if an exception is leaving the block
AltLeave(p) ==
  /\ altpc[p] = "in"
  /\ \E exctype \in BOOLEAN :
       /\ exc' = [exc EXCEPT ![p] = exctype]
       /\ status' = [status EXCEPT ![p] = IF exctype THEN 1 ELSE 0]
  /\ altpc' = [altpc EXCEPT ![p] = "exit"]
  /\ UNCHANGED <<basisvars, edgevars, hiervars, patchvars, symvars, gridvars, gmshvars, nsvars, logvars, ctxvars,
                 cfg, offsets, nvals, data, wlog, pc, procid, child_pid, iiter, enum_n,
                 shared_iter, lock, handled, assertfail, ielem1, altfork, entered_procid, waited>>

\* while self.children: os.wait() returns a child that has exited
AltWait(p) ==
  /\ altpc[p] = "exit"
  /\ \E child \in altfork[p].children.pids :
       /\ altpc[child] = "exited"
       /\ altfork' = [altfork EXCEPT ![p].children.pids = @ \ {child}]
       /\ status' = [status EXCEPT ![p] = IF status[child] # 0 THEN 1 ELSE @]
  /\ waited' = waited \cup {p}
  /\ UNCHANGED <<basisvars, edgevars, hiervars, patchvars, symvars, gridvars, gmshvars, nsvars, logvars, ctxvars,
                 cfg, offsets, nvals, data, wlog, pc, procid, child_pid, iiter, enum_n,
                 shared_iter, lock, exc, handled, assertfail, ielem1, altpc, entered_procid>>

\* the end of AlternativeFork.__exit__, once no child is left to wait for:
\* if procid: os._exit(status); otherwise procid = None and the assertion
AltExit(p) ==
  /\ altpc[p] = "exit"
  /\ altfork[p].children.pids = {}
  /\ IF procid[p] \notin {None, 0}
     THEN /\ altpc' = [altpc EXCEPT ![p] = "exited"]
          /\ UNCHANGED procid
     ELSE /\ procid' = [procid EXCEPT ![p] = None]
          /\ altpc' = [altpc EXCEPT ![p] = IF exc[p] \/ status[p] # 0 THEN "raised" ELSE "left"]
  /\ UNCHANGED <<basisvars, edgevars, hiervars, patchvars, symvars, gridvars, gmshvars, nsvars, logvars, ctxvars,
                 cfg, offsets, nvals, data, wlog, pc, child_pid, iiter, enum_n,
                 shared_iter, lock, exc, status, handled, assertfail, ielem1, altfork,
                 entered_procid, waited>>

AltNext ==
  \/ AltEnter
  \/ \E p \in Procs : AltLeave(p)
  \/ \E p \in Procs : AltWait(p)
  \/ \E p \in Procs : AltExit(p)

SpecAltFork == AltInit /\ [][AltNext]_vars

\* C28: when AlternativeFork is entered in an already forked process the
\* context is ignored: leaving it does not terminate the process, does not
\* wait for any child, and leaves procid as it was.
C28_AltForkIgnored ==
  entered_procid # None =>
    /\ altpc[0] # "exited"
    /\ 0 \notin waited
    /\ altpc[0] \in {"left", "raised"} => procid[0] = entered_procid

(***************************************************************************)
(* log.Log as a context manager: __enter__ and __exit__ and the module's   *)
(* list _active.  A log object is a number; _init_context of a subclass    *)
(* may raise, and so may a cleanup that it has pushed on the exit stack.   *)
(***************************************************************************)
MaxLogs == 3

Logs == 1..MaxLogs

\* list.remove: the first occurrence is taken out
Remove(list, x) ==
  LET first == CHOOSE i \in DOMAIN list : list[i] = x /\ \A j \in 1..(i - 1) : list[j] # x
  IN [i \in 1..(Len(list) - 1) |-> IF i < first THEN list[i] ELSE list[i + 1]]

\* as Log_enter, without the test for the attribute _stack
Log_enter_reentrant(_active, has_stack, log, initfails) ==
  IF initfails
  THEN [_active |-> _active, has_stack |-> has_stack \ {log}, ok |-> FALSE, err |-> "Exception"]
  ELSE [_active |-> Append(_active, log), has_stack |-> has_stack \cup {log}, ok |-> TRUE, err |-> ""]

\* Log.__enter__: the new list _active, the logs with a _stack, and the result
Log_enter(_active, has_stack, log, initfails) ==
  IF log \in has_stack
  THEN [_active |-> _active, has_stack |-> has_stack, ok |-> FALSE, err |-> "RuntimeError"]
  ELSE IF initfails
  THEN [_active |-> _active, has_stack |-> has_stack, ok |-> FALSE, err |-> "Exception"]
  ELSE [_active |-> Append(_active, log), has_stack |-> has_stack \cup {log}, ok |-> TRUE, err |-> ""]

\* Log.__exit__: the callback _active.remove(self) is the last one pushed and
\* the first one run; the cleanups of _init_context follow and may raise
Log_exit(_active, has_stack, log, cleanupfails) ==
  IF log \notin has_stack
  THEN [_active |-> _active, has_stack |-> has_stack, ok |-> FALSE, err |-> "RuntimeError"]
  ELSE [_active |-> Remove(_active, log), has_stack |-> has_stack \ {log},
        ok |-> ~ cleanupfails, err |-> IF cleanupfails THEN "Exception" ELSE ""]

LogInit ==
  /\ BasisIdle
  /\ ParIdle
  /\ EdgeIdle
  /\ HierIdle
  /\ PatchIdle
  /\ SymIdle
  /\ GridIdle
  /\ GmshIdle
  /\ NsIdle
  /\ AltIdle
  /\ CtxIdle
  /\ active = <<>>
  /\ stacks = {}
  /\ logres = [op |-> "", log |-> 0, had_stack |-> FALSE, ok |-> TRUE, err |-> ""]

\* log.__enter__()
LogEnter(log) ==
  /\ \E initfails \in BOOLEAN :
       \E r \in {Log_enter(active, stacks, log, initfails)} :
         /\ active' = r._active
         /\ stacks' = r.has_stack
         /\ logres' = [op |-> "enter", log |-> log, had_stack |-> log \in stacks,
                       ok |-> r.ok, err |-> r.err]
  /\ UNCHANGED <<basisvars, parvars, edgevars, hiervars, patchvars, symvars, gridvars,
                 gmshvars, nsvars, altvars, ctxvars>>

\* log.__exit__(...)
LogExit(log) ==
  /\ \E cleanupfails \in BOOLEAN :
       \E r \in {Log_exit(active, stacks, log, cleanupfails)} :
         /\ active' = r._active
         /\ stacks' = r.has_stack
         /\ logres' = [op |-> "exit", log |-> log, had_stack |-> log \in stacks,
                       ok |-> r.ok, err |-> r.err]
  /\ UNCHANGED <<basisvars, parvars, edgevars, hiervars, patchvars, symvars, gridvars,
                 gmshvars, nsvars, altvars, ctxvars>>

LogNext ==
  \/ \E log \in Logs : LogEnter(log)
  \/ \E log \in Logs : LogExit(log)

SpecLog == LogInit /\ [][LogNext]_vars

\* the number of times a log is in the list _active
Count(list, x) == Cardinality({i \in DOMAIN list : list[i] = x})

\* C25: entering a Log that is entered raises RuntimeError and leaves it
\* entered; exiting a Log that is not entered raises RuntimeError; a Log is
\* in the list _active, once, exactly while it is entered; an __enter__ that
\* fails leaves the Log not entered and not in the list.
C25_LogNotReentrant ==
  /\ \A log \in Logs : Count(active, log) = IF log \in stacks THEN 1 ELSE 0
  /\ logres.op = "enter" /\ logres.had_stack =>
       logres.err = "RuntimeError" /\ logres.log \in stacks
  /\ logres.op = "exit" /\ ~ logres.had_stack =>
       logres.err = "RuntimeError" /\ logres.log \notin stacks
  /\ logres.op = "enter" /\ ~ logres.had_stack /\ ~ logres.ok =>
       logres.log \notin stacks /\ Count(active, logres.log) = 0
  /\ logres.op = "enter" /\ logres.ok => logres.log \in stacks
  /\ logres.op = "exit" /\ logres.had_stack => logres.log \notin stacks

\* a second __enter__ of a log that is entered, after another log, has raised
C25_Witness ==
  /\ active = <<2, 1>>
  /\ stacks = {1, 2}
  /\ logres = [op |-> "enter", log |-> 2, had_stack |-> TRUE, ok |-> FALSE, err |-> "RuntimeError"]

(***************************************************************************)
(* The context logs of nutils/log.py.  A StdoutLog, a ContextTreeLog and a *)
(* RecordLog are active while the program enters and exits contexts and    *)
(* writes items through the functions of the module; the record is then    *)
(* replayed into a fresh StdoutLog.  A printed line of a StdoutLog is the  *)
(* sequence of the context titles followed by the text, which is what      *)
(* ' > '.join gives; every level is printed.  The abstract methods of the  *)
(* ContextTreeLog append to the list events.                               *)
(***************************************************************************)
MaxOps == 6

MaxDepth == 2

Titles == {"a", "b"}

Texts == {"x", "y"}

\* list.pop()
Pop(list) == SubSeq(list, 1, Len(list) - 1)

\* list[n:]
From(list, n) == SubSeq(list, n + 1, Len(list))

\* ContextLog._push_context
ContextLog_push_context(log, title) ==
  [log EXCEPT !._context = Append(@, title)]

\* ContextLog._pop_context
ContextLog_pop_context(log) ==
  [log EXCEPT !._context = Pop(@)]

\* StdoutLog.write: print(' > '.join(self._context + [text]))
StdoutLog_write(log, text) ==
  [log EXCEPT !.stream = Append(@, log._context \o <<text>>)]

\* as ContextTreeLog_pop_context, the pop printed for every context
ContextTreeLog_pop_context_always(log) ==
  [ContextLog_pop_context(log) EXCEPT
     !._printed_context = IF @ > 0 THEN @ - 1 ELSE @,
     !.events = Append(@, <<"pop">>)]

\* ContextTreeLog._pop_context
ContextTreeLog_pop_context(log) ==
  LET popped == ContextLog_pop_context(log)
  IN IF popped._printed_context > Len(popped._context)
     THEN [popped EXCEPT !._printed_context = @ - 1, !.events = Append(@, <<"pop">>)]
     ELSE popped

\* ContextTreeLog.write: nothing in a forked worker; otherwise the contexts
\* that are not printed yet are pushed, and the item is printed
ContextTreeLog_write(log, text, parallel_procid) ==
  IF parallel_procid \notin {None, 0} THEN log
  ELSE [log EXCEPT
          !.events = @ \o [i \in 1..(Len(log._context) - log._printed_context) |->
                             <<"push", log._context[log._printed_context + i]>>]
                       \o << <<"item", text>> >>,
          !._printed_context = Len(log._context)]

\* RecordLog.context, up to the yield
RecordLog_context_enter(log, title) ==
  [log EXCEPT !._contexts = Append(@, title)]

\* RecordLog.context, the finally clause
RecordLog_context_exit(log) ==
  LET popped == [log EXCEPT !._contexts = Pop(@)]
  IN IF popped._appended_contexts > Len(popped._contexts)
     THEN [popped EXCEPT !._appended_contexts = @ - 1,
                         !._messages = Append(@, <<"exitcontext">>)]
     ELSE popped

\* as RecordLog_write, the contexts appended again with every write
RecordLog_write_again(log, text, parallel_procid) ==
  [log EXCEPT
     !._messages = @ \o [i \in 1..Len(log._contexts) |-> <<"entercontext", log._contexts[i]>>]
                     \o << <<"write", text>> >>,
     !._appended_contexts = Len(log._contexts)]

\* RecordLog.write
RecordLog_write(log, text, parallel_procid) ==
  IF parallel_procid \notin {None, 0} THEN log
  ELSE [log EXCEPT
          !._messages = @ \o [i \in 1..Len(From(log._contexts, log._appended_contexts)) |->
                                <<"entercontext", From(log._contexts, log._appended_contexts)[i]>>]
                          \o << <<"write", text>> >>,
          !._appended_contexts = Len(log._contexts)]

\* the logs are entered in the unforked process and nothing is logged yet
CtxInit ==
  /\ BasisIdle
  /\ ParIdle
  /\ EdgeIdle
  /\ HierIdle
  /\ PatchIdle
  /\ SymIdle
  /\ GridIdle
  /\ GmshIdle
  /\ NsIdle
  /\ AltIdle
  /\ LogIdle
  /\ hist = <<>>
  /\ stdoutlog = [_context |-> <<>>, stream |-> <<>>]
  /\ treelog = [_context |-> <<>>, _printed_context |-> 0, events |-> <<>>]
  /\ recordlog = [_messages |-> <<>>, _contexts |-> <<>>, _appended_contexts |-> 0]
  /\ replaying = [phase |-> "record", pos |-> 0, contexts |-> <<>>]
  /\ replaylog = [_context |-> <<>>, stream |-> <<>>]

\* with log.context(title): the context of every active log is entered
CtxEnter ==
  /\ replaying.phase = "record"
  /\ Len(hist) < MaxOps
  /\ Len(stdoutlog._context) < MaxDepth
  /\ \E title \in Titles :
       /\ hist' = Append(hist, <<"enter", title>>)
       /\ stdoutlog' = ContextLog_push_context(stdoutlog, title)
       /\ treelog' = ContextLog_push_context(treelog, title)
       /\ recordlog' = RecordLog_context_enter(recordlog, title)
  /\ UNCHANGED <<basisvars, parvars, edgevars, hiervars, patchvars, symvars, gridvars,
                 gmshvars, nsvars, altvars, logvars, replaying, replaylog>>

\* the end of the with-block: the context of every active log is exited
CtxExit ==
  /\ replaying.phase = "record"
  /\ Len(hist) < MaxOps
  /\ Len(stdoutlog._context) > 0
  /\ hist' = Append(hist, <<"exit">>)
  /\ stdoutlog' = ContextLog_pop_context(stdoutlog)
  /\ treelog' = ContextTreeLog_pop_context(treelog)
  /\ recordlog' = RecordLog_context_exit(recordlog)
  /\ UNCHANGED <<basisvars, parvars, edgevars, hiervars, patchvars, symvars, gridvars,
                 gmshvars, nsvars, altvars, logvars, replaying, replaylog>>

\* log.info(text): _print writes the text to every active log
CtxWrite ==
  /\ replaying.phase = "record"
  /\ Len(hist) < MaxOps
  /\ \E text \in Texts :
       /\ hist' = Append(hist, <<"write", text>>)
       /\ stdoutlog' = StdoutLog_write(stdoutlog, text)
       /\ treelog' = ContextTreeLog_write(treelog, text, procid[0])
       /\ recordlog' = RecordLog_write(recordlog, text, procid[0])
  /\ UNCHANGED <<basisvars, parvars, edgevars, hiervars, patchvars, symvars, gridvars,
                 gmshvars, nsvars, altvars, logvars, replaying, replaylog>>

\* the with-block of the logs is left with every context exited, a fresh
\* StdoutLog is entered and record.replay() is called: contexts = []
StartReplay ==
  /\ replaying.phase = "record"
  /\ Len(stdoutlog._context) = 0
  /\ replaying' = [phase |-> "replay", pos |-> 1, contexts |-> <<>>]
  /\ UNCHANGED <<basisvars, parvars, edgevars, hiervars, patchvars, symvars, gridvars,
                 gmshvars, nsvars, altvars, logvars, hist, stdoutlog, treelog, recordlog,
                 replaylog>>

\* one pass of the loop of RecordLog.replay
ReplayStep ==
  /\ replaying.phase = "replay"
  /\ replaying.pos <= Len(recordlog._messages)
  /\ LET message == recordlog._messages[replaying.pos]
         cmd == message[1]
     IN IF cmd = "entercontext"
        THEN /\ replaylog' = ContextLog_push_context(replaylog, message[2])
             /\ replaying' = [replaying EXCEPT !.pos = @ + 1, !.contexts = Append(@, message[2])]
        ELSE IF cmd = "exitcontext"
        THEN /\ replaylog' = ContextLog_pop_context(replaylog)
             /\ replaying' = [replaying EXCEPT !.pos = @ + 1, !.contexts = Pop(@)]
        ELSE /\ replaylog' = StdoutLog_write(replaylog, message[2])
             /\ replaying' = [replaying EXCEPT !.pos = @ + 1]
  /\ UNCHANGED <<basisvars, parvars, edgevars, hiervars, patchvars, symvars, gridvars,
                 gmshvars, nsvars, altvars, logvars, hist, stdoutlog, treelog, recordlog>>

\* the loop of replay is exhausted and replay returns
ReplayEnd ==
  /\ replaying.phase = "replay"
  /\ replaying.pos > Len(recordlog._messages)
  /\ replaying' = [replaying EXCEPT !.phase = "done"]
  /\ UNCHANGED <<basisvars, parvars, edgevars, hiervars, patchvars, symvars, gridvars,
                 gmshvars, nsvars, altvars, logvars, hist, stdoutlog, treelog, recordlog,
                 replaylog>>

CtxNext ==
  \/ CtxEnter
  \/ CtxExit
  \/ CtxWrite
  \/ StartReplay
  \/ ReplayStep
  \/ ReplayEnd

SpecContext == CtxInit /\ [][CtxNext]_vars

(***************************************************************************)
(* Properties of the context logs, stated over the history of operations.  *)
(***************************************************************************)

\* the depth of the contexts after the first i operations of h
DepthAt(h, i) ==
  Cardinality({j \in 1..i : h[j][1] = "enter"}) - Cardinality({j \in 1..i : h[j][1] = "exit"})

\* the operation that exits the context entered by operation i, or Len(h)+1
CloseOf(h, i) ==
  LET closing == {j \in (i + 1)..Len(h) : h[j][1] = "exit" /\ DepthAt(h, j) = DepthAt(h, i) - 1}
  IN IF closing = {} THEN Len(h) + 1
     ELSE CHOOSE j \in closing : \A k \in closing : j <= k

\* operation k lies inside the context entered by operation i
Inside(h, i, k) == h[i][1] = "enter" /\ i < k /\ k < CloseOf(h, i)

\* the writes inside the context entered by operation i or its descendants
WritesIn(h, i) == {k \in 1..Len(h) : h[k][1] = "write" /\ Inside(h, i, k)}

\* the positions in S in increasing order
Ordered(S) ==
  [n \in 1..Cardinality(S) |-> CHOOSE i \in S : Cardinality({j \in S : j < i}) = n - 1]

\* the titles of the contexts that operation k lies in, outermost first
StackAt(h, k) ==
  LET around == Ordered({i \in 1..Len(h) : Inside(h, i, k)})
  IN [n \in DOMAIN around |-> h[around[n]][2]]

\* what a ContextTreeLog is to print for operation k: for a write the pushes
\* of the contexts around it that have no earlier write, then the item; for
\* an exit the pop when the context has a write
EventsOf(h, k) ==
  IF h[k][1] = "write"
  THEN LET fresh == Ordered({i \in 1..Len(h) : Inside(h, i, k) /\ \A w \in WritesIn(h, i) : w >= k})
       IN [n \in DOMAIN fresh |-> <<"push", h[fresh[n]][2]>>] \o << <<"item", h[k][2]>> >>
  ELSE IF h[k][1] = "exit" /\ \E i \in 1..Len(h) : CloseOf(h, i) = k /\ WritesIn(h, i) # {}
  THEN << <<"pop">> >>
  ELSE <<>>

RECURSIVE ExpectedEvents(_, _)
ExpectedEvents(h, k) ==
  IF k = 0 THEN <<>> ELSE ExpectedEvents(h, k - 1) \o EventsOf(h, k)

\* the titles pushed and not yet popped after the events, or <<"underflow">>
\* when a pop comes with nothing pushed
RECURSIVE PrintedStack(_, _)
PrintedStack(events, n) ==
  IF n = 0 THEN <<>>
  ELSE LET before == PrintedStack(events, n - 1)
       IN IF before = <<"underflow">> THEN before
          ELSE IF events[n][1] = "push" THEN Append(before, events[n][2])
          ELSE IF events[n][1] = "item" THEN before
          ELSE IF before = <<>> THEN <<"underflow">>
          ELSE Pop(before)

\* C30: a ContextTreeLog prints the push of a context only immediately
\* before the first item written inside that context or one of its
\* descendants, prints the pop at the exit of a context if and only if its
\* push was printed, and prints neither for a context without an item; the
\* number of printed contexts never exceeds the depth, and the pushes and
\* pops are balanced and properly nested.
C30_TreeLogPrintsLazily ==
  /\ treelog.events = ExpectedEvents(hist, Len(hist))
  /\ \A n \in DOMAIN treelog.events :
       treelog.events[n][1] = "push" =>
         n < Len(treelog.events) /\ treelog.events[n + 1][1] \in {"push", "item"}
  /\ treelog._printed_context <= Len(treelog._context)
  /\ PrintedStack(treelog.events, Len(treelog.events))
       = SubSeq(treelog._context, 1, treelog._printed_context)

\* a context with an item and, inside it, a context without one have been
\* exited: one push and one pop are printed
C30_Witness ==
  /\ hist = <<<<"enter", "a">>, <<"write", "x">>, <<"enter", "b">>, <<"exit">>, <<"exit">>>>
  /\ treelog.events = <<<<"push", "a">>, <<"item", "x">>, <<"pop">>>>

\* the titles of the contexts entered by the first n messages of the record
RECURSIVE EnteredBy(_, _)
EnteredBy(messages, n) ==
  IF n = 0 THEN <<>>
  ELSE IF messages[n][1] = "entercontext" THEN Append(EnteredBy(messages, n - 1), messages[n][2])
  ELSE EnteredBy(messages, n - 1)

\* the titles of the contexts of the history in which something is written
WrittenContexts(h) ==
  LET written == Ordered({i \in 1..Len(h) : h[i][1] = "enter" /\ WritesIn(h, i) # {}})
  IN [n \in DOMAIN written |-> h[written[n]][2]]

\* C24: replay delivers to the active log the same writes, each inside the
\* same stack of context titles, as the active log received when the
\* operations were performed; the contexts in which nothing was written are
\* not entered, and every context that replay enters is exited.
C24_ReplayReproducesLog ==
  /\ replaying.phase # "record" => replaylog._context = replaying.contexts
  /\ replaying.phase = "done" =>
       /\ replaylog.stream = stdoutlog.stream
       /\ \A n \in DOMAIN replaylog.stream :
            \E k \in 1..Len(hist) :
              /\ hist[k][1] = "write"
              /\ replaylog.stream[n] = StackAt(hist, k) \o <<hist[k][2]>>
       /\ EnteredBy(recordlog._messages, Len(recordlog._messages)) = WrittenContexts(hist)
       /\ replaying.contexts = <<>>
       /\ replaylog._context = <<>>

\* a record with an empty context inside a context with two writes has been
\* replayed
C24_Witness ==
  /\ replaying.phase = "done"
  /\ hist = <<<<"enter", "a">>, <<"write", "x">>, <<"enter", "b">>, <<"exit">>,
              <<"write", "y">>, <<"exit">>>>
  /\ replaylog.stream = <<<<"a", "x">>, <<"a", "y">>>>
  /\ recordlog._messages = <<<<"entercontext", "a">>, <<"write", "x">>, <<"write", "y">>,
                             <<"exitcontext">>>>

====
